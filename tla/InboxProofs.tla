---------------------------- MODULE InboxProofs ----------------------------
(***************************************************************************)
(* Theorems of the inbox and the AI friend, for any peers, pages, requests *)
(* and goroutines, and without the bound the runs set on what happens side *)
(* by side.                                                                *)
(***************************************************************************)
EXTENDS Assistant, TLAPS, FiniteSetTheorems, WellFoundedInduction

-----------------------------------------------------------------------------
(***************************************************************************)
(* Pages of rows.                                                          *)
(***************************************************************************)

\* A page that is not empty has a last row.
LEMMA LastIsLast ==
    ASSUME NEW S \in SUBSET Ids, S # {}
    PROVE  Last(S) \in S /\ \A j \in S : j <= Last(S)
<1> DEFINE T == {MaxId - i : i \in S}
<1>1. \A i \in S : i \in Nat /\ MaxId - i \in Nat /\ MaxId - i \in T
  BY InboxAssumption DEF Ids
<1>2. T \subseteq Nat /\ T # {}
  BY <1>1
<1>3. PICK x \in T : \A y \in T : ~(<<y, x>> \in OpToRel(<, Nat))
  BY <1>2, NatLessThanWellFounded, WFMin
<1>4. \A y \in T : ~(y < x)
  BY <1>2, <1>3 DEF OpToRel
<1>5. PICK i \in S : x = MaxId - i
  OBVIOUS
<1>6. \A j \in S : j <= i
  <2> TAKE j \in S
  <2>1. ~(MaxId - j < MaxId - i)
    BY <1>1, <1>4, <1>5
  <2>2. QED BY <1>1, <2>1, InboxAssumption
<1>7. QED BY <1>6 DEF Last

LEMMA IdsAreFinite == ASSUME NEW S \in SUBSET Ids PROVE IsFiniteSet(S) /\ Cardinality(S) \in Nat
<1>1. IsFiniteSet(Ids)
  BY InboxAssumption, FS_Interval DEF Ids
<1>2. QED BY <1>1, FS_Subset, FS_CardinalityType

\* A first page leaves out nothing that is smaller than one of its rows.
LEMMA FirstPageHasNoGap ==
    ASSUME NEW S \in SUBSET Ids, NEW j \in FirstPage(S), NEW i \in S, i <= j
    PROVE  i \in FirstPage(S)
<1> DEFINE Below(k) == {h \in S : h < k}
<1>1. Below(i) \subseteq Below(j)
  <2>1. j \in S
    BY DEF FirstPage
  <2>2. \A h \in S : h \in Int
    BY InboxAssumption DEF Ids
  <2>3. QED BY <2>1, <2>2
<1>2. Cardinality(Below(i)) <= Cardinality(Below(j))
  BY <1>1, FS_Subset, IdsAreFinite
<1>3. Cardinality(Below(i)) \in Nat /\ Cardinality(Below(j)) \in Nat
  BY IdsAreFinite
<1>4. Cardinality(Below(j)) < PageSize
  BY DEF FirstPage
<1> HIDE DEF Below
<1>5. Cardinality(Below(i)) < PageSize
  BY <1>2, <1>3, <1>4, InboxAssumption
<1>6. QED BY <1>5 DEF FirstPage, Below

-----------------------------------------------------------------------------
(***************************************************************************)
(* The inductive invariant.  UnshownIsCounted counts whatever a request    *)
(* carries; but a listed answer may still be lost for an error of the      *)
(* count, so what keeps a row is an answer only once its entries are       *)
(* cleared.  And a later page may mark everything through its last row     *)
(* read because it was listed without a gap.                               *)
(***************************************************************************)
Kept(r) == r.before \cup (IF r.stage = "cleared" THEN r.page ELSE {})

Counted ==
    \A i \in Inbound : \/ i \in unread \cup owed \cup accounted \cup hidden \cup overtaken
                       \/ \E s \in Active : i \in Kept(load[s])

NoGap(r) ==
    r.stage # "sent" /\ r.after # 0 /\ r.page # {} =>
        \A i \in With(r.peer) :
            r.after < i /\ i <= Last(r.page) => i \in r.page \cup hidden \cup overtaken

LoadsOK == \A s \in Active : NoGap(load[s]) /\ (~load[s].all => load[s].before = {})

CursorOK == cursor \in Committed \cup {0}

InboxInv ==
    TypeOK /\ LoadsOK /\ CursorOK /\ Counted /\ OfflineMissesOnlyLateCommits

LEMMA InboxInvInit == Init => InboxInv
<1> SUFFICES ASSUME Init PROVE InboxInv
  OBVIOUS
<1> USE DEF Init
<1>1. Committed = {} /\ Active = {} /\ Inbound = {}
  BY DEF Committed, Active, Inbound
<1>2. TypeOK
  BY <1>1, InboxAssumption DEF TypeOK
<1>3. LoadsOK /\ CursorOK /\ Counted /\ OfflineMissesOnlyLateCommits
  BY <1>1 DEF LoadsOK, CursorOK, Counted, OfflineMissesOnlyLateCommits
<1>4. QED BY <1>2, <1>3 DEF InboxInv

LEMMA UpsetKeeps == ASSUME TypeOK, Upset PROVE upsets' \in 0..MaxUpsets
BY InboxAssumption DEF TypeOK, Upset

\* What the sets of rows are made of.
LEMMA RowsOfIds ==
    /\ Committed \subseteq Ids /\ Inbound \subseteq Committed
    /\ \A p \in Peers : With(p) \subseteq Committed
BY DEF Committed, Inbound, With

LEMMA NoRowIsNew ==
    ASSUME UNCHANGED sent
    PROVE  /\ Committed' = Committed /\ Inbound' = Inbound
           /\ \A p : With(p)' = With(p)
BY DEF Committed, Inbound, With

-----------------------------------------------------------------------------
\* A row commits: if a page or the cursor is past it already, it is overtaken.
LEMMA SaveKeeps ==
    ASSUME InboxInv, NEW i \in Ids, NEW p \in Peers, NEW mine \in BOOLEAN,
           SaveAndEnqueue(i, p, mine), owed' = IF mine THEN owed ELSE owed \cup {i},
           UNCHANGED <<unread, hidden, pageVars, offlineVars, accounted, upsets>>
    PROVE  InboxInv'
<1> DEFINE row == [peer |-> p, mine |-> mine]
<1>1. sent[i] = None /\ sent' = [sent EXCEPT ![i] = row] /\ row # None
  BY InboxAssumption DEF SaveAndEnqueue, None
<1>2. /\ i \notin Committed
      /\ Committed' = Committed \cup {i}
      /\ Inbound' = IF mine THEN Inbound ELSE Inbound \cup {i}
      /\ \A q \in Peers : With(q)' = IF q = p THEN With(q) \cup {i} ELSE With(q)
  BY <1>1 DEF InboxInv, TypeOK, Committed, Inbound, With
<1>3. overtaken' = IF \E j \in Committed : j > i THEN overtaken \cup {i} ELSE overtaken
  BY DEF SaveAndEnqueue
<1>4. /\ UNCHANGED <<unread, hidden, selected, load, cursor, pulled, accounted, upsets>>
      /\ Active' = Active
  BY DEF pageVars, offlineVars, Active
<1>5. TypeOK'
  <2>1. sent' \in [Ids -> [peer : Peers, mine : BOOLEAN] \cup {None}]
    BY <1>1 DEF InboxInv, TypeOK
  <2>2. \A s \in Active : Rows(s)' = Rows(s)
    BY <1>4 DEF Rows
  <2>3. /\ owed' \subseteq Inbound' /\ unread' \subseteq Inbound' /\ hidden' \subseteq Committed'
        /\ pulled' \subseteq Inbound'
        /\ accounted' \subseteq Committed' /\ overtaken' \subseteq Committed'
    BY <1>2, <1>3, <1>4 DEF InboxInv, TypeOK
  <2>4. QED BY <1>2, <1>4, <2>1, <2>2, <2>3 DEF InboxInv, TypeOK
<1>6. LoadsOK'
  <2> SUFFICES ASSUME NEW s \in Active PROVE NoGap(load[s])'
    BY <1>4 DEF LoadsOK, InboxInv
  <2>1. NoGap(load[s]) /\ load[s].peer \in Peers /\ load[s].page \subseteq Committed
    BY DEF InboxInv, TypeOK, LoadsOK, Active, Load, Rows
  <2>2. CASE load[s].page = {}
    BY <1>4, <2>2 DEF NoGap
  <2>3. CASE load[s].page # {}
    <3>1. Last(load[s].page) \in Committed
      BY <2>1, <2>3, LastIsLast, RowsOfIds
    <3>2. ASSUME NEW j \in Committed, i <= j PROVE i \in overtaken'
      <4>1. i # j
        BY <1>2
      <4>2. i \in Int /\ j \in Int
        BY RowsOfIds, InboxAssumption DEF Ids
      <4>3. QED BY <1>3, <3>2, <4>1, <4>2
    <3>3. ASSUME NEW k \in With(load[s].peer)', k <= Last(load[s].page), load[s].after < k,
                 load[s].stage # "sent", load[s].after # 0
          PROVE  k \in load[s].page \cup hidden \cup overtaken'
      <4>1. CASE k = i
        BY <3>1, <3>2, <3>3, <4>1
      <4>2. CASE k # i
        BY <1>2, <1>3, <1>4, <2>1, <2>3, <3>3, <4>2 DEF NoGap
      <4>3. QED BY <4>1, <4>2
    <3>4. QED BY <1>4, <3>3 DEF NoGap
  <2>4. QED BY <2>2, <2>3
<1>7. CursorOK'
  BY <1>2, <1>4 DEF InboxInv, CursorOK
<1>8. Counted'
  BY <1>2, <1>3, <1>4 DEF InboxInv, Counted
<1>9. OfflineMissesOnlyLateCommits'
  <2>1. i <= cursor => i \in overtaken'
    BY <1>2, <1>3, RowsOfIds DEF InboxInv, CursorOK, Ids
  <2>2. QED BY <1>2, <1>3, <1>4, <2>1 DEF InboxInv, OfflineMissesOnlyLateCommits
<1>10. QED BY <1>5, <1>6, <1>7, <1>8, <1>9 DEF InboxInv

\* A row is counted, or never will be.
LEMMA CountKeeps ==
    ASSUME InboxInv, NEW i \in owed, owed' = owed \ {i},
           \/ unread' = unread \cup {i} /\ UNCHANGED accounted
           \/ accounted' = accounted \cup {i} /\ UNCHANGED unread,
           upsets' \in 0..MaxUpsets,
           UNCHANGED <<sent, overtaken, hidden, pageVars, offlineVars>>
    PROVE  InboxInv'
<1>1. /\ UNCHANGED <<sent, overtaken, hidden, selected, load, cursor, pulled>>
      /\ Active' = Active /\ \A s \in Active : Rows(s)' = Rows(s)
  BY DEF pageVars, offlineVars, Active, Rows
<1>2. i \in Inbound /\ i \in Committed
  BY RowsOfIds DEF InboxInv, TypeOK
<1>3. TypeOK'
  BY <1>1, <1>2, NoRowIsNew DEF InboxInv, TypeOK
<1>4. LoadsOK' /\ CursorOK' /\ OfflineMissesOnlyLateCommits'
  BY <1>1, NoRowIsNew
  DEF InboxInv, LoadsOK, NoGap, CursorOK, OfflineMissesOnlyLateCommits
<1>5. Counted'
  BY <1>1, NoRowIsNew DEF InboxInv, Counted
<1>6. QED BY <1>3, <1>4, <1>5 DEF InboxInv

-----------------------------------------------------------------------------
(***************************************************************************)
(* The requests of the page.                                               *)
(***************************************************************************)
SoundLoad(r) ==
    \/ r = NoLoad
    \/ /\ r \in Load
       /\ r.page \cup r.before \subseteq Committed
       /\ NoGap(r)
       /\ ~r.all => r.before = {}

\* A request goes on to r.  Whatever it kept, or takes out of the count, it keeps or accounts.
LEMMA LoadKeeps ==
    ASSUME InboxInv, NEW s \in Slots, NEW r, SoundLoad(r), load' = [load EXCEPT ![s] = r],
           selected' \in Peers, unread' \subseteq unread,
           accounted \subseteq accounted', accounted' \subseteq Committed,
           load[s] # NoLoad =>
               Kept(load[s]) \subseteq accounted' \cup (IF r = NoLoad THEN {} ELSE Kept(r)),
           unread \subseteq unread' \cup accounted' \cup hidden \cup overtaken
                               \cup (IF r = NoLoad THEN {} ELSE Kept(r)),
           upsets' \in 0..MaxUpsets, UNCHANGED <<rowVars, hidden, offlineVars>>
    PROVE  InboxInv'
<1>1. UNCHANGED <<sent, owed, overtaken, hidden, cursor, pulled>>
  BY DEF rowVars, offlineVars
<1>2. \A t \in Slots : load'[t] = IF t = s THEN r ELSE load[t]
  BY DEF InboxInv, TypeOK
<1>3. Active' = IF r = NoLoad THEN Active \ {s} ELSE Active \cup {s}
  BY <1>2 DEF Active
<1>4. TypeOK'
  <2>1. load' \in [Slots -> Load \cup {NoLoad}]
    BY DEF SoundLoad, InboxInv, TypeOK
  <2>2. \A t \in Active' : Rows(t)' \subseteq Committed
    BY <1>2, <1>3 DEF SoundLoad, InboxInv, TypeOK, Rows
  <2>3. unread' \subseteq Inbound
    BY DEF InboxInv, TypeOK
  <2>4. selected' # NoPeer
    BY InboxAssumption
  <2>5. QED
    BY <1>1, <2>1, <2>2, <2>3, <2>4, NoRowIsNew DEF InboxInv, TypeOK
<1>5. LoadsOK'
  <2> SUFFICES ASSUME NEW t \in Active'
               PROVE  NoGap(load[t])' /\ (~load'[t].all => load'[t].before = {})
    BY DEF LoadsOK
  <2>1. CASE t = s
    BY <1>1, <1>2, <1>3, <2>1, NoRowIsNew DEF SoundLoad, NoGap
  <2>2. CASE t # s
    BY <1>1, <1>2, <1>3, <2>2, NoRowIsNew DEF InboxInv, LoadsOK, NoGap
  <2>3. QED BY <2>1, <2>2
<1>6. CursorOK' /\ OfflineMissesOnlyLateCommits'
  BY <1>1, NoRowIsNew DEF InboxInv, CursorOK, OfflineMissesOnlyLateCommits
<1>7. Counted'
  <2> SUFFICES ASSUME NEW i \in Inbound
               PROVE  \/ i \in unread' \cup owed \cup accounted' \cup hidden \cup overtaken
                      \/ \E t \in Active' : i \in Kept(load'[t])
    BY <1>1, NoRowIsNew DEF Counted, Kept
  <2>1. CASE r # NoLoad /\ i \in Kept(r)
    BY <1>2, <1>3, <2>1
  <2>2. CASE i \in unread
    BY <2>1, <2>2
  <2>3. ASSUME NEW t \in Active, i \in Kept(load[t])
        PROVE  \/ i \in accounted'
               \/ \E u \in Active' : i \in Kept(load'[u])
    <3>1. CASE t = s
      BY <2>1, <2>3, <3>1 DEF Active
    <3>2. CASE t # s
      BY <1>2, <1>3, <2>3, <3>2 DEF Active
    <3>3. QED BY <3>1, <3>2
  <2>4. QED BY <2>1, <2>2, <2>3 DEF InboxInv, Counted
<1>8. QED BY <1>4, <1>5, <1>6, <1>7 DEF InboxInv

LEMMA OpeningIsSound ==
    ASSUME NEW p \in Peers
    PROVE  /\ Opening(p) \in Load
           /\ SoundLoad(Opening(p)) /\ Kept(Opening(p)) = {} /\ Opening(p) # NoLoad
           /\ Opening(p).stage = "sent" /\ Opening(p).page = {} /\ Opening(p).before = {}
<1>1. Opening(p) \in Load
  BY InboxAssumption DEF Opening, Load, Ids
<1>2. QED
  BY <1>1 DEF Opening, SoundLoad, NoGap, Kept, NoLoad

LEMMA NothingKept == ASSUME NEW r, r = NoLoad PROVE SoundLoad(r)
BY DEF SoundLoad

LEMMA OpeningKeeps ==
    ASSUME InboxInv, NEW s \in Slots,
           \/ \E p \in Peers : selectPeer(s, p)
           \/ loadEntireConversation(s)
    PROVE  InboxInv'
<1>1. accounted \subseteq Committed /\ upsets \in 0..MaxUpsets
  BY DEF InboxInv, TypeOK
<1>2. ASSUME NEW p \in Peers, selectPeer(s, p) PROVE InboxInv'
  BY <1>1, <1>2, OpeningIsSound, LoadKeeps DEF selectPeer, Request
<1>3. CASE loadEntireConversation(s)
  <2> DEFINE r == [Opening(selected) EXCEPT !.all = TRUE]
  <2>1. selected \in Peers
    BY <1>3 DEF loadEntireConversation, InboxInv, TypeOK
  <2>2. SoundLoad(r) /\ Kept(r) = {} /\ r # NoLoad
    <3>1. r \in Load /\ r.stage = "sent" /\ r.page = {} /\ r.before = {}
      <4>1. /\ Opening(selected) \in Load /\ Opening(selected).stage = "sent"
            /\ Opening(selected).page = {} /\ Opening(selected).before = {}
        BY <2>1, OpeningIsSound
      <4>2. QED BY <4>1 DEF Load
    <3> HIDE DEF r
    <3>2. QED BY <3>1 DEF SoundLoad, NoGap, Kept, NoLoad
  <2>3. load[s] = NoLoad /\ load' = [load EXCEPT ![s] = r]
        /\ UNCHANGED <<rowVars, unread, hidden, selected, offlineVars, accounted, upsets>>
    BY <1>3 DEF loadEntireConversation, Request
  <2> HIDE DEF r
  <2>4. QED BY <1>1, <2>1, <2>2, <2>3, LoadKeeps
<1>4. QED BY <1>2, <1>3

\* The facts about a request that is under way.
LEMMA UnderWay ==
    ASSUME InboxInv, NEW s \in Slots, load[s] # NoLoad
    PROVE  /\ s \in Active /\ load[s] \in Load /\ SoundLoad(load[s])
           /\ Rows(s) = load[s].page \cup load[s].before
           /\ Rows(s) \subseteq Committed
           /\ selected \in Peers
           /\ accounted \subseteq Committed /\ upsets \in 0..MaxUpsets
BY DEF InboxInv, TypeOK, LoadsOK, Active, Rows, SoundLoad

LEMMA ListKeeps == ASSUME InboxInv, NEW s \in Slots, List(s) PROVE InboxInv'
<1> DEFINE old == load[s]
           page == ListConversation(old.peer, old.after)
           r == [old EXCEPT !.stage = "listed", !.page = page]
<1>1. /\ old # NoLoad /\ old.stage = "sent" /\ s \in Active
      /\ UNCHANGED <<rowVars, unread, hidden, selected, offlineVars, accounted, upsets>>
  BY DEF List, Active
<1>2. /\ old \in Load /\ SoundLoad(old) /\ old.before \subseteq Committed /\ selected \in Peers
      /\ accounted \subseteq Committed /\ upsets \in 0..MaxUpsets
  BY <1>1, UnderWay
<1>3. load' = [load EXCEPT ![s] = r]
  BY <1>1, <1>2 DEF List, InboxInv, TypeOK
<1>4. page \subseteq With(old.peer) \ hidden /\ page \subseteq Committed /\ page \subseteq Ids
  BY <1>2, RowsOfIds DEF ListConversation, FirstPage, Load
<1>5. /\ r.stage = "listed" /\ r.page = page /\ r.all = old.all /\ r.before = old.before
      /\ r.peer = old.peer /\ r.after = old.after /\ (page \subseteq Ids => r \in Load)
  BY <1>2 DEF Load
<1> HIDE DEF r
<1>6. NoGap(r)
  <2> SUFFICES ASSUME page # {}, NEW i \in With(old.peer), old.after < i, i <= Last(page),
                      i \notin hidden
               PROVE  i \in page
    BY <1>5 DEF NoGap
  <2> DEFINE S == {k \in With(old.peer) \ hidden : k > old.after}
  <2>1. S \subseteq Ids /\ page = FirstPage(S)
    BY <1>2, RowsOfIds DEF ListConversation, Load
  <2>2. i \in S
    OBVIOUS
  <2>3. Last(page) \in page
    BY <1>4, LastIsLast
  <2> HIDE DEF S
  <2>4. QED BY <2>1, <2>2, <2>3, FirstPageHasNoGap
<1>7. SoundLoad(r) /\ r # NoLoad
  BY <1>1, <1>2, <1>4, <1>5, <1>6 DEF SoundLoad, NoLoad
<1>8. Kept(old) \subseteq Kept(r)
  BY <1>1, <1>5 DEF Kept
<1>9. QED BY <1>1, <1>2, <1>3, <1>7, <1>8, LoadKeeps

\* What is taken out of the count was on the page or before it, or is swept with the count.
LEMMA ClearKeeps == ASSUME InboxInv, NEW s \in Slots, ClearConversation(s) PROVE InboxInv'
<1> DEFINE old == load[s]
           r == [old EXCEPT !.stage = "cleared"]
           cleared == EntriesThrough(old.peer, Through(old))
<1>1. /\ old # NoLoad /\ old.stage = "listed"
      /\ UNCHANGED <<rowVars, hidden, selected, offlineVars>>
  BY DEF ClearConversation
<1>2. /\ old \in Load /\ SoundLoad(old) /\ selected \in Peers
      /\ old.before \subseteq Committed /\ old.page \subseteq Committed
      /\ accounted \subseteq Committed /\ upsets \in 0..MaxUpsets
  BY <1>1, UnderWay
<1>3. CASE /\ load' = [load EXCEPT ![s].stage = "cleared"]
           /\ unread' = unread \ cleared
           /\ accounted' = accounted \cup Swept(old, cleared)
           /\ UNCHANGED upsets
  <2>1. load' = [load EXCEPT ![s] = r]
    BY <1>1, <1>2, <1>3 DEF InboxInv, TypeOK
  <2>2. cleared \subseteq unread \cap With(old.peer) /\ cleared \subseteq Committed
    BY RowsOfIds DEF EntriesThrough, Entries, InboxInv, TypeOK
  <2> /\ r.stage = "cleared" /\ r.page = old.page /\ r.all = old.all /\ r.before = old.before
      /\ r.peer = old.peer /\ r.after = old.after /\ r \in Load
    BY <1>2 DEF Load
  <2> HIDE DEF r
  <2>3. SoundLoad(r) /\ r # NoLoad
    <3>1. NoGap(old) /\ (~old.all => old.before = {})
      BY <1>1, <1>2 DEF SoundLoad
    <3>2. NoGap(r)
      BY <1>1, <3>1 DEF NoGap
    <3>3. QED BY <1>2, <3>1, <3>2 DEF SoundLoad, NoLoad
  <2>4. Kept(r) = old.before \cup old.page /\ Kept(old) \subseteq Kept(r)
    BY <1>1 DEF Kept
  <2>5. Swept(old, cleared) \subseteq cleared
    BY DEF Swept
  <2>6. ASSUME NEW i \in cleared
        PROVE  i \in accounted' \cup hidden \cup overtaken \cup Kept(r)
    <3>1. CASE old.after = 0
      BY <1>3, <2>4, <2>6, <3>1 DEF Swept
    <3>2. CASE old.after # 0 /\ i <= old.after
      BY <1>3, <2>6, <3>2 DEF Swept
    <3>3. CASE old.after # 0 /\ ~(i <= old.after)
      <4>1. i <= Through(old)
        BY <2>6 DEF EntriesThrough
      <4>2. i \in Int /\ old.after \in Int
        <5>1. i \in Ids /\ old.after \in 0..MaxId
          BY <1>2, <2>2, <2>6, RowsOfIds DEF Load
        <5>2. QED BY <5>1, InboxAssumption DEF Ids
      <4>3. old.page # {} /\ i <= Last(old.page) /\ old.after < i
        BY <3>3, <4>1, <4>2 DEF Through
      <4>4. NoGap(old) /\ i \in With(old.peer)
        BY <1>1, <1>2, <2>2, <2>6 DEF SoundLoad
      <4>5. QED BY <1>1, <2>4, <3>3, <4>3, <4>4 DEF NoGap
    <3>4. QED BY <3>1, <3>2, <3>3
  <2> HIDE DEF cleared
  <2>7. /\ unread \subseteq unread' \cup accounted' \cup hidden \cup overtaken \cup Kept(r)
        /\ unread' \subseteq unread
        /\ accounted \subseteq accounted' /\ accounted' \subseteq Committed
    BY <1>2, <1>3, <2>2, <2>5, <2>6
  <2>8. QED BY <1>1, <1>2, <1>3, <2>1, <2>3, <2>4, <2>7, LoadKeeps
<1>4. CASE /\ Upset
           /\ load' = [load EXCEPT ![s] = NoLoad]
           /\ accounted' = accounted \cup old.before
           /\ UNCHANGED unread
  <2>1. Kept(old) = old.before
    BY <1>1 DEF Kept
  <2>2. accounted' \subseteq Committed /\ upsets' \in 0..MaxUpsets
    BY <1>2, <1>4, UpsetKeeps DEF InboxInv
  <2> HIDE DEF old
  <2>3. QED BY <1>1, <1>2, <1>4, <2>1, <2>2, NothingKept, LoadKeeps DEF old
<1>5. QED BY <1>3, <1>4 DEF ClearConversation

\* A request that ends accounts for what it carried.
LEMMA EndKeeps ==
    ASSUME InboxInv, NEW s \in Slots, load[s] # NoLoad,
           load' = [load EXCEPT ![s] = NoLoad],
           Kept(load[s]) \subseteq accounted', accounted \subseteq accounted',
           accounted' \subseteq accounted \cup Rows(s), upsets' \in 0..MaxUpsets,
           UNCHANGED <<rowVars, unread, hidden, selected, offlineVars>>
    PROVE  InboxInv'
<1>1. accounted' \subseteq Committed /\ selected' \in Peers
  BY UnderWay
<1>2. QED BY <1>1, NothingKept, LoadKeeps

LEMMA AnswersKeep ==
    ASSUME InboxInv, NEW s \in Slots, loadConversation(s) \/ NextPage(s) \/ AnswerLost(s)
    PROVE  InboxInv'
<1> DEFINE old == load[s]
<1>1. /\ old # NoLoad
      /\ UNCHANGED <<rowVars, unread, hidden, selected, offlineVars>>
  BY DEF loadConversation, NextPage, AnswerLost, Active
<1>2. /\ old \in Load /\ SoundLoad(old) /\ selected \in Peers
      /\ Rows(s) = old.page \cup old.before /\ Rows(s) \subseteq Committed
      /\ accounted \subseteq Committed /\ upsets \in 0..MaxUpsets
  BY <1>1, UnderWay
<1>3. Kept(old) \subseteq Rows(s)
  BY <1>2 DEF Kept
<1>4. CASE loadConversation(s)
  <2>1. old.before = {}
    BY <1>1, <1>2, <1>4 DEF SoundLoad, loadConversation
  <2>2. QED BY <1>1, <1>2, <1>3, <1>4, <2>1, EndKeeps DEF loadConversation
<1>5. CASE AnswerLost(s)
  BY <1>1, <1>2, <1>3, <1>5, EndKeeps, UpsetKeeps DEF AnswerLost, InboxInv
<1>6. CASE NextPage(s)
  <2>1. CASE accounted' = accounted \cup Rows(s) /\ load' = [load EXCEPT ![s] = NoLoad]
    BY <1>1, <1>2, <1>3, <1>6, <2>1, EndKeeps DEF NextPage
  <2>2. CASE /\ Cardinality(old.page) >= PageSize
             /\ load' = [load EXCEPT ![s] = [Opening(selected) EXCEPT
                            !.all = TRUE, !.after = Last(old.page), !.before = Rows(s)]]
             /\ UNCHANGED accounted
    <3> DEFINE r == [Opening(selected) EXCEPT
                        !.all = TRUE, !.after = Last(old.page), !.before = Rows(s)]
    <3>1. load' = [load EXCEPT ![s] = r]
      BY <2>2
    <3>2. old.page # {}
      BY <2>2, FS_EmptySet, InboxAssumption
    <3>3. Last(old.page) \in Ids /\ Rows(s) \subseteq Ids
      BY <1>2, <3>2, LastIsLast, RowsOfIds
    <3>4. SoundLoad(r) /\ r # NoLoad /\ Kept(r) = Rows(s)
      <4>1. Last(old.page) \in 0..MaxId
        BY <3>3, InboxAssumption DEF Ids
      <4>2. /\ r \in Load /\ r.all = TRUE
            /\ r.stage = "sent" /\ r.page = {} /\ r.before = Rows(s)
        BY <1>2, <3>3, <4>1, OpeningIsSound DEF Load
      <4> HIDE DEF r
      <4>3. QED BY <1>2, <4>2 DEF SoundLoad, NoGap, NoLoad, Kept
    <3> HIDE DEF r
    <3>5. UNCHANGED upsets
      BY <1>6 DEF NextPage
    <3> HIDE DEF old
    <3>6. Kept(load[s]) \subseteq Kept(r)
      BY <1>3, <3>4 DEF old
    <3>7. QED BY <1>1, <1>2, <2>2, <3>1, <3>4, <3>5, <3>6, LoadKeeps
  <2>3. QED BY <1>6, <2>1, <2>2 DEF NextPage
<1>7. QED BY <1>4, <1>5, <1>6

LEMMA PushedKeeps ==
    ASSUME InboxInv, NEW i \in Ids, NEW s \in Slots, Pushed(i, s) PROVE InboxInv'
<1>1. /\ i \in Committed /\ selected \in Peers /\ accounted' = accounted \cup {i}
      /\ UNCHANGED <<rowVars, unread, hidden, selected, offlineVars, upsets>>
      /\ load' = load \/ (load[s] = NoLoad /\ load' = [load EXCEPT ![s] = Opening(selected)])
  <2>1. sent[i].peer \in Peers
    BY DEF Pushed, Committed, InboxInv, TypeOK
  <2>2. QED BY <2>1 DEF Pushed, Request
<1>2. accounted' \subseteq Committed /\ accounted \subseteq accounted' /\ upsets' \in 0..MaxUpsets
  BY <1>1 DEF InboxInv, TypeOK
<1>3. CASE load[s] = NoLoad /\ load' = [load EXCEPT ![s] = Opening(selected)]
  BY <1>1, <1>2, <1>3, OpeningIsSound, LoadKeeps
<1>4. CASE load' = load
  <2>1. load' = [load EXCEPT ![s] = load[s]]
    BY <1>4 DEF InboxInv, TypeOK
  <2>2. SoundLoad(load[s])
    BY UnderWay DEF SoundLoad
  <2>3. QED BY <1>1, <1>2, <2>1, <2>2, LoadKeeps
<1>5. QED BY <1>1, <1>3, <1>4

LEMMA DeletionKeeps == ASSUME InboxInv, DeleteConversationMessages PROVE InboxInv'
<1>1. /\ UNCHANGED <<sent, owed, overtaken, unread, selected, load, cursor, pulled, accounted>>
      /\ hidden \subseteq hidden' /\ hidden' \subseteq Committed
      /\ upsets' \in 0..MaxUpsets
  BY RowsOfIds, UpsetKeeps
  DEF DeleteConversationMessages, Deletions, InboxInv, TypeOK, rowVars, pageVars, offlineVars
<1>2. Active' = Active /\ \A s \in Active : Rows(s)' = Rows(s)
  BY <1>1 DEF Active, Rows
<1>3. TypeOK'
  BY <1>1, <1>2, NoRowIsNew DEF InboxInv, TypeOK
<1>4. LoadsOK' /\ CursorOK' /\ OfflineMissesOnlyLateCommits' /\ Counted'
  BY <1>1, <1>2, NoRowIsNew
  DEF InboxInv, LoadsOK, NoGap, CursorOK, OfflineMissesOnlyLateCommits, Counted
<1>5. QED BY <1>3, <1>4 DEF InboxInv

\* The cursor moves to the last row of a page without gaps.
LEMMA OfflineKeeps == ASSUME InboxInv, loadOfflineMessages PROVE InboxInv'
<1> DEFINE S == {i \in Inbound : i > cursor}
<1>1. S \subseteq Ids /\ Offline = FirstPage(S) /\ Offline \subseteq S
  BY RowsOfIds DEF Offline, ListOffline, FirstPage
<1>2. /\ Offline # {} /\ pulled' = pulled \cup Offline /\ cursor' = Last(Offline)
      /\ UNCHANGED <<sent, owed, overtaken, unread, hidden, selected, load, accounted, upsets>>
  BY DEF loadOfflineMessages, rowVars, pageVars
<1>3. cursor' \in Offline
  BY <1>1, <1>2, LastIsLast
<1>4. cursor' \in Ids /\ cursor' \in Committed /\ Offline \subseteq Inbound
  BY <1>1, <1>3, RowsOfIds
<1>5. Active' = Active /\ \A s \in Active : Rows(s)' = Rows(s)
  BY <1>2 DEF Active, Rows
<1>6. TypeOK'
  <2>1. cursor' \in 0..MaxId
    BY <1>4, InboxAssumption DEF Ids
  <2>2. QED BY <1>2, <1>4, <1>5, <2>1, NoRowIsNew DEF InboxInv, TypeOK
<1>7. LoadsOK' /\ CursorOK' /\ Counted'
  BY <1>2, <1>4, <1>5, NoRowIsNew DEF InboxInv, LoadsOK, NoGap, CursorOK, Counted
<1>8. OfflineMissesOnlyLateCommits'
  <2> SUFFICES ASSUME NEW i \in Inbound, i <= cursor' PROVE i \in pulled' \cup overtaken
    BY <1>2, NoRowIsNew DEF OfflineMissesOnlyLateCommits
  <2>1. CASE i <= cursor
    BY <1>2, <2>1 DEF InboxInv, OfflineMissesOnlyLateCommits
  <2>2. CASE ~(i <= cursor)
    <3>1. i \in Int /\ cursor \in Int
      BY RowsOfIds, InboxAssumption DEF InboxInv, TypeOK, Ids
    <3>2. i \in S
      BY <2>2, <3>1
    <3> HIDE DEF S
    <3>3. QED BY <1>1, <1>2, <1>3, <3>2, FirstPageHasNoGap
  <2>3. QED BY <2>1, <2>2
<1>9. QED BY <1>6, <1>7, <1>8 DEF InboxInv

LEMMA ReloadKeeps == ASSUME InboxInv, Reload PROVE InboxInv'
<1>1. /\ selected' = NoPeer /\ load' = [s \in Slots |-> NoLoad]
      /\ accounted' = accounted \cup Carried
      /\ UNCHANGED <<sent, owed, overtaken, unread, hidden, cursor, pulled, upsets>>
  BY DEF Reload, rowVars, offlineVars
<1>2. Active' = {}
  BY <1>1 DEF Active
<1>3. Carried \subseteq Committed
  BY DEF Carried, InboxInv, TypeOK
<1>4. TypeOK'
  BY <1>1, <1>2, <1>3, NoRowIsNew DEF InboxInv, TypeOK
<1>5. LoadsOK' /\ CursorOK' /\ OfflineMissesOnlyLateCommits'
  BY <1>1, <1>2, NoRowIsNew
  DEF InboxInv, LoadsOK, CursorOK, OfflineMissesOnlyLateCommits
<1>6. Counted'
  <2>1. \A s \in Active : Kept(load[s]) \subseteq Carried
    BY DEF Kept, Carried, Rows
  <2>2. QED BY <1>1, <2>1, NoRowIsNew DEF InboxInv, Counted
<1>7. QED BY <1>4, <1>5, <1>6 DEF InboxInv

-----------------------------------------------------------------------------
(***************************************************************************)
(* The AI friend.                                                          *)
(***************************************************************************)
BlankIsKnown == \A g \in Answering : chat[g].stage = "nothing" => chat[g].question \in blank

AssistantInv == InboxInv /\ AssistantTypeOK /\ BlankIsKnown /\ SilenceHasACause

LEMMA UpsetsGrow ==
    ASSUME TypeOK, Upset \/ UNCHANGED upsets
    PROVE  upsets' = 0 => upsets = 0
BY InboxAssumption DEF TypeOK, Upset

LEMMA AssistantInvInit == AssistantInit => AssistantInv
<1> SUFFICES ASSUME AssistantInit PROVE AssistantInv
  OBVIOUS
<1>1. InboxInv
  BY InboxInvInit DEF AssistantInit
<1>2. Questions = {} /\ Answering = {}
  BY DEF AssistantInit, Init, Questions, With, Committed, Answering
<1>3. AssistantTypeOK /\ BlankIsKnown /\ SilenceHasACause
  BY <1>1, <1>2 DEF AssistantInit, InboxInv, AssistantTypeOK, BlankIsKnown, SilenceHasACause
<1>4. QED BY <1>1, <1>3 DEF AssistantInv

\* The questions grow with my messages to the bot.
LEMMA QuestionsGrow ==
    ASSUME InboxInv, NEW i \in Ids, NEW p \in Peers, NEW mine \in BOOLEAN,
           SaveAndEnqueue(i, p, mine)
    PROVE  Questions' = IF mine /\ p = Bot THEN Questions \cup {i} ELSE Questions
<1> DEFINE row == [peer |-> p, mine |-> mine]
<1>1. sent[i] = None /\ sent' = [sent EXCEPT ![i] = row] /\ row # None
  BY InboxAssumption DEF SaveAndEnqueue, None
<1>2. QED BY <1>1 DEF InboxInv, TypeOK, Questions, With, Committed

LEMMA QuestionsStay == ASSUME UNCHANGED sent PROVE Questions' = Questions
BY DEF Questions, With, Committed

\* What the others do leaves every question where it is.
LEMMA OthersKeep == ASSUME AssistantInv, Others, UNCHANGED chatVars PROVE AssistantInv'
<1>1. ASSUME NEW i \in Ids, Increment(i) PROVE InboxInv' /\ UNCHANGED sent
  BY <1>1, CountKeeps, UpsetKeeps DEF AssistantInv, InboxInv, TypeOK, Increment
<1>2. ASSUME NEW i \in Ids, NEW p \in Peers \ {Bot}, SaveMessage(i, p) \/ SaveMedia(i, p)
      PROVE  InboxInv' /\ Questions' = Questions
  BY <1>2, SaveKeeps, QuestionsGrow DEF AssistantInv, SaveMessage, SaveMedia
<1>3. ASSUME NEW s \in Slots, Page(s) PROVE InboxInv' /\ UNCHANGED sent
  <2>1. InboxInv'
    BY <1>3, OpeningKeeps, ListKeeps, ClearKeeps, AnswersKeep, PushedKeeps
    DEF Page, AssistantInv
  <2>2. UNCHANGED rowVars
    BY <1>3 DEF Page, loadEntireConversation, selectPeer, List, ClearConversation,
                loadConversation, NextPage, AnswerLost, Pushed
  <2>3. QED BY <2>1, <2>2 DEF rowVars
<1>4. ASSUME DeleteConversationMessages \/ loadOfflineMessages \/ Reload
      PROVE  InboxInv' /\ UNCHANGED sent
  <2>1. InboxInv'
    BY <1>4, DeletionKeeps, OfflineKeeps, ReloadKeeps DEF AssistantInv
  <2>2. UNCHANGED sent
    BY <1>4 DEF DeleteConversationMessages, loadOfflineMessages, Reload, rowVars
  <2>3. QED BY <2>1, <2>2
<1>5. InboxInv' /\ Questions' = Questions
  BY <1>1, <1>2, <1>3, <1>4, QuestionsStay DEF Others
<1>6. upsets' = 0 => upsets = 0
  <2>1. Upset \/ UNCHANGED upsets
    BY DEF Others, Increment, SaveMessage, SaveMedia, Page, loadEntireConversation, selectPeer,
       List, ClearConversation, loadConversation, NextPage, AnswerLost, Pushed,
       DeleteConversationMessages, loadOfflineMessages, Reload
  <2>2. QED BY <2>1, UpsetsGrow DEF AssistantInv, InboxInv
<1>7. AssistantTypeOK' /\ BlankIsKnown' /\ SilenceHasACause'
  BY <1>5, <1>6
  DEF InboxInv, AssistantInv, AssistantTypeOK, BlankIsKnown, SilenceHasACause, chatVars,
      Answering
<1>8. QED BY <1>5, <1>7 DEF AssistantInv

\* A goroutine moves on with its question, or ends: then the question is answered, or the
\* model had nothing to say or the time was over, if nothing failed.
LEMMA ChatKeeps ==
    ASSUME AssistantInv, InboxInv', Questions' = Questions, NEW g \in Goroutines, NEW k,
           g \in Answering, chat' = [chat EXCEPT ![g] = k], UNCHANGED waiting,
           answered \subseteq answered', answered' \subseteq answered \cup {chat[g].question},
           blank \subseteq blank', blank' \subseteq blank \cup {chat[g].question},
           late \subseteq late', late' \subseteq late \cup {chat[g].question},
           Upset \/ UNCHANGED upsets,
           \/ /\ k \in Chat /\ k.question = chat[g].question
              /\ k.stage = "nothing" => k.question \in blank'
           \/ /\ k = Idle
              /\ upsets' = 0 => chat[g].question \in answered' \cup blank' \cup late'
    PROVE  AssistantInv'
<1>1. \A h \in Goroutines : chat'[h] = IF h = g THEN k ELSE chat[h]
  BY DEF AssistantInv, AssistantTypeOK
<1>2. \A q : q \in Chat => q # Idle
  BY DEF Chat, Idle
<1>3. chat[g].question \in Questions
  BY DEF AssistantInv, AssistantTypeOK
<1>4. Answering' = IF k = Idle THEN Answering \ {g} ELSE Answering \cup {g}
  BY <1>1 DEF Answering
<1>5. chat' \in [Goroutines -> Chat \cup {Idle}]
  BY DEF AssistantInv, AssistantTypeOK
<1>6. AssistantTypeOK'
  BY <1>1, <1>2, <1>3, <1>4, <1>5 DEF AssistantInv, AssistantTypeOK, InboxInv
<1>7. BlankIsKnown'
  BY <1>1, <1>2, <1>4 DEF AssistantInv, BlankIsKnown, Answering
<1>8. SilenceHasACause'
  <2>1. upsets' = 0 => upsets = 0
    BY UpsetsGrow DEF AssistantInv, InboxInv
  <2> SUFFICES ASSUME upsets' = 0, NEW q \in Questions
               PROVE  \/ q \in answered' \cup blank' \cup late' \cup waiting'
                      \/ \E h \in Answering' : q = chat'[h].question
    BY DEF SilenceHasACause
  <2>2. CASE q \in answered \cup blank \cup late \cup waiting
    BY <2>2
  <2>3. ASSUME NEW h \in Answering, q = chat[h].question
        PROVE  \/ q \in answered' \cup blank' \cup late'
               \/ \E e \in Answering' : q = chat'[e].question
    <3>1. CASE h = g
      BY <1>1, <1>2, <1>4, <2>3, <3>1
    <3>2. CASE h # g
      BY <1>1, <1>4, <2>3, <3>2 DEF Answering
    <3>3. QED BY <3>1, <3>2
  <2>4. QED BY <2>1, <2>2, <2>3 DEF AssistantInv, SilenceHasACause
<1>9. QED BY <1>6, <1>7, <1>8 DEF AssistantInv

LEMMA AskBotKeeps == ASSUME AssistantInv, NEW i \in Ids, AskBot(i) PROVE AssistantInv'
<1>1. /\ SaveAndEnqueue(i, Bot, TRUE)
      /\ UNCHANGED <<owed, unread, hidden, pageVars, offlineVars, accounted, upsets>>
      /\ waiting' = waiting \cup {i} /\ UNCHANGED <<chat, answered, blank, late>>
  BY DEF AskBot, SendMessage
<1>2. InboxInv'
  BY <1>1, SaveKeeps, AssistantAssumption DEF AssistantInv
<1>3. Questions' = Questions \cup {i}
  BY <1>1, QuestionsGrow, AssistantAssumption DEF AssistantInv
<1>4. AssistantTypeOK' /\ BlankIsKnown' /\ SilenceHasACause'
  BY <1>1, <1>2, <1>3
  DEF InboxInv, AssistantInv, AssistantTypeOK, BlankIsKnown, SilenceHasACause, Answering
<1>5. QED BY <1>2, <1>4 DEF AssistantInv

\* A failing call leaves the inbox as it is.
LEMMA InboxUpset ==
    ASSUME InboxInv, Upset \/ UNCHANGED upsets,
           UNCHANGED <<rowVars, unread, hidden, pageVars, offlineVars, accounted>>
    PROVE  InboxInv' /\ Questions' = Questions
<1>1. upsets' \in 0..MaxUpsets
  BY UpsetKeeps DEF InboxInv, TypeOK
<1>2. UNCHANGED <<sent, owed, overtaken, unread, hidden, selected, load, cursor, pulled,
                  accounted>>
  BY DEF rowVars, pageVars, offlineVars
<1>3. TypeOK'
  BY <1>1, <1>2, NoRowIsNew DEF InboxInv, TypeOK, Active, Rows
<1>4. LoadsOK' /\ CursorOK' /\ OfflineMissesOnlyLateCommits' /\ Counted'
  BY <1>2, NoRowIsNew
  DEF InboxInv, LoadsOK, NoGap, CursorOK, OfflineMissesOnlyLateCommits, Counted, Active
<1>5. QED BY <1>2, <1>3, <1>4, QuestionsStay DEF InboxInv

LEMMA ReadContextKeeps ==
    ASSUME AssistantInv, NEW g \in Goroutines, NEW q \in waiting, ReadContext(g, q)
    PROVE  AssistantInv'
<1> DEFINE k(stage) == [stage |-> stage, question |-> q, round |-> 0,
                        context |-> ListRecentConversation]
<1>1. /\ chat[g] = Idle /\ waiting' = waiting \ {q} /\ UNCHANGED <<answered, blank, late>>
      /\ UNCHANGED <<rowVars, unread, hidden, pageVars, offlineVars, accounted>>
      /\ Upset \/ UNCHANGED upsets
  BY DEF ReadContext
<1>2. InboxInv' /\ Questions' = Questions
  BY <1>1, InboxUpset DEF AssistantInv
<1>3. q \in Questions /\ q \in Ids /\ ListRecentConversation \subseteq Ids
  BY RowsOfIds, AssistantAssumption
  DEF AssistantInv, AssistantTypeOK, Questions, ListRecentConversation
<1>4. ASSUME NEW stage \in {"asking", "replying"}, UNCHANGED upsets,
             chat' = [chat EXCEPT ![g] = k(stage)]
      PROVE  AssistantTypeOK' /\ BlankIsKnown' /\ SilenceHasACause'
  <2>1. k(stage) \in Chat /\ k(stage) # Idle /\ k(stage).question = q /\ k(stage).stage # "nothing"
    BY <1>3, AssistantAssumption DEF Chat, Idle
  <2> HIDE DEF k
  <2>2. \A h \in Goroutines : chat'[h] = IF h = g THEN k(stage) ELSE chat[h]
    BY <1>4 DEF AssistantInv, AssistantTypeOK
  <2>3. Answering' = Answering \cup {g}
    BY <2>1, <2>2 DEF Answering
  <2>4. chat' \in [Goroutines -> Chat \cup {Idle}]
    BY <1>4, <2>1 DEF AssistantInv, AssistantTypeOK
  <2>5. AssistantTypeOK'
    <3>1. \A h \in Answering' : chat'[h].question \in Questions
      BY <1>3, <2>1, <2>2, <2>3 DEF AssistantInv, AssistantTypeOK, Answering
    <3>2. QED BY <1>1, <1>2, <2>4, <3>1 DEF AssistantInv, AssistantTypeOK, InboxInv
  <2>6. BlankIsKnown'
    BY <1>1, <2>1, <2>2, <2>3 DEF AssistantInv, BlankIsKnown, Answering
  <2>7. SilenceHasACause'
    BY <1>1, <1>2, <1>4, <2>1, <2>2, <2>3 DEF AssistantInv, SilenceHasACause, Answering
  <2>8. QED BY <2>5, <2>6, <2>7
<1>5. CASE Upset /\ UNCHANGED chat
  <2>1. upsets' # 0
    BY <1>5, InboxAssumption DEF Upset, AssistantInv, InboxInv, TypeOK
  <2>2. QED
    BY <1>1, <1>2, <1>3, <1>5, <2>1
    DEF InboxInv, AssistantInv, AssistantTypeOK, BlankIsKnown, SilenceHasACause, Answering
<1>6. QED BY <1>2, <1>4, <1>5 DEF ReadContext, AssistantInv

\* Nothing of the inbox changes.
LEMMA InboxStays == ASSUME InboxInv, UNCHANGED vars PROVE InboxInv' /\ Questions' = Questions
BY InboxUpset DEF vars

\* Where a step of its own leads a goroutine.
LEMMA RoundKeeps ==
    ASSUME AssistantInv, NEW g \in Goroutines,
           generateAIReply(g) \/ ExecTools(g) \/ SayNothing(g) \/ Expire(g)
    PROVE  AssistantInv'
<1> DEFINE old == chat[g]
<1>1. g \in Answering /\ UNCHANGED <<waiting, answered>> /\ UNCHANGED vars /\ UNCHANGED upsets
  BY DEF generateAIReply, ExecTools, SayNothing, Expire, vars
<1>2. InboxInv' /\ Questions' = Questions
  BY <1>1, InboxStays DEF AssistantInv
<1>3. old \in Chat /\ old.question \in Questions /\ chat \in [Goroutines -> Chat \cup {Idle}]
  BY <1>1 DEF AssistantInv, AssistantTypeOK, Answering
<1>4. ASSUME NEW stage \in {"asking", "tools", "replying", "telling", "nothing"},
             NEW round \in 0..MaxRounds - 1,
             chat' = [chat EXCEPT ![g].stage = stage, ![g].round = round],
             stage = "nothing" => old.question \in blank', UNCHANGED late,
             blank \subseteq blank', blank' \subseteq blank \cup {old.question}
      PROVE  AssistantInv'
  <2> DEFINE k == [old EXCEPT !.stage = stage, !.round = round]
  <2>1. chat' = [chat EXCEPT ![g] = k]
    BY <1>3, <1>4
  <2>2. k \in Chat /\ k.question = old.question /\ k.stage = stage
    BY <1>3 DEF Chat
  <2> HIDE DEF k
  <2>3. QED BY <1>1, <1>2, <1>4, <2>1, <2>2, ChatKeeps
<1>5. ASSUME NEW stage \in {"replying", "telling", "nothing", "tools"}, Goes(g, stage)
      PROVE  chat' = [chat EXCEPT ![g].stage = stage, ![g].round = old.round]
             /\ old.round \in 0..MaxRounds - 1
  <2>1. [old EXCEPT !.stage = stage] = [old EXCEPT !.stage = stage, !.round = old.round]
    BY <1>3 DEF Chat
  <2>2. QED BY <1>3, <1>5, <2>1 DEF Goes, Chat
<1>6. CASE generateAIReply(g)
  <2>1. PICK outcome \in completeMessage(g) :
            /\ \/ outcome = "text" /\ Goes(g, "replying")
               \/ outcome \in {"nothing", "tools"} /\ Goes(g, outcome)
               \/ outcome = "error" /\ Goes(g, "telling")
            /\ blank' = IF outcome = "nothing" THEN blank \cup {old.question} ELSE blank
            /\ UNCHANGED late
    BY <1>6 DEF generateAIReply, ErrorIsTold
  <2>2. CASE outcome = "text" \/ outcome = "error" \/ outcome = "tools"
    BY <1>4, <1>5, <2>1, <2>2
  <2>3. CASE outcome = "nothing"
    BY <1>4, <1>5, <2>1, <2>3
  <2>4. QED BY <2>1, <2>2, <2>3
<1>7. CASE ExecTools(g)
  <2>1. UNCHANGED <<blank, late>>
    BY <1>7 DEF ExecTools
  <2>2. CASE Goes(g, "telling")
    BY <1>4, <1>5, <2>1, <2>2
  <2>3. CASE /\ old.round + 1 < MaxRounds
             /\ chat' = [chat EXCEPT ![g].stage = "asking", ![g].round = @ + 1]
    <3>1. old.round + 1 \in 0..MaxRounds - 1
      BY <1>3, <2>3, AssistantAssumption DEF Chat
    <3>2. chat' = [chat EXCEPT ![g].stage = "asking", ![g].round = old.round + 1]
      BY <1>3, <2>3 DEF Chat
    <3>3. QED BY <1>4, <2>1, <3>1, <3>2
  <2>4. QED BY <1>7, <2>2, <2>3 DEF ExecTools, ErrorIsTold
<1>8. CASE SayNothing(g)
  <2>1. old.question \in blank
    BY <1>1, <1>8 DEF SayNothing, AssistantInv, BlankIsKnown
  <2>2. QED BY <1>1, <1>2, <1>8, <2>1, ChatKeeps DEF SayNothing, Ends
<1>9. CASE Expire(g)
  <2>1. chat' = [chat EXCEPT ![g] = old] /\ (old.stage = "nothing" => old.question \in blank)
    BY <1>1, <1>3, <1>9 DEF Expire, AssistantInv, BlankIsKnown
  <2>2. UNCHANGED blank /\ late' = late \cup {old.question}
    BY <1>9 DEF Expire
  <2>3. QED BY <1>1, <1>2, <1>3, <2>1, <2>2, ChatKeeps
<1>10. QED BY <1>6, <1>7, <1>8, <1>9

LEMMA ReplyKeeps ==
    ASSUME AssistantInv, NEW g \in Goroutines, NEW i \in Ids, saveBotMessage(g, i)
    PROVE  AssistantInv'
<1>1. /\ g \in Answering /\ UNCHANGED <<waiting, blank, late>>
      /\ chat' = [chat EXCEPT ![g] = Idle]
      /\ UNCHANGED <<unread, hidden, pageVars, offlineVars, accounted>>
  BY DEF saveBotMessage, Ends
<1>2. CASE SaveReply(g, i)
  <2>1. InboxInv'
    BY <1>1, <1>2, SaveKeeps, AssistantAssumption DEF SaveReply, AssistantInv
  <2>2. Questions' = Questions
    BY <1>2, QuestionsGrow, AssistantAssumption DEF SaveReply, AssistantInv
  <2>3. answered' = answered \cup {chat[g].question} /\ UNCHANGED upsets
    BY <1>2 DEF SaveReply
  <2>4. QED BY <1>1, <2>1, <2>2, <2>3, ChatKeeps
<1>3. CASE LoseReply(g)
  <2>1. /\ UNCHANGED answered /\ UNCHANGED rowVars
        /\ \/ chat[g].question \in late /\ UNCHANGED upsets
           \/ Upset
    BY <1>3 DEF LoseReply, expired
  <2>2. InboxInv' /\ Questions' = Questions
    BY <1>1, <2>1, InboxUpset DEF AssistantInv
  <2>3. Upset => upsets' # 0
    BY InboxAssumption DEF Upset, AssistantInv, InboxInv, TypeOK
  <2>4. QED BY <1>1, <2>1, <2>2, <2>3, ChatKeeps
<1>4. QED BY <1>2, <1>3 DEF saveBotMessage

LEMMA CountExpiredKeeps ==
    ASSUME AssistantInv, NEW i \in Ids, CountExpired(i) PROVE AssistantInv'
<1>1. InboxInv' /\ UNCHANGED sent /\ UNCHANGED chatVars /\ UNCHANGED upsets
  BY CountKeeps DEF CountExpired, AssistantInv, InboxInv, TypeOK
<1>2. QED
  BY <1>1, QuestionsStay
  DEF InboxInv, AssistantInv, AssistantTypeOK, BlankIsKnown, SilenceHasACause, chatVars,
      Answering

LEMMA CrashKeeps == ASSUME AssistantInv, Crash PROVE AssistantInv'
<1>1. InboxInv' /\ Questions' = Questions
  BY InboxUpset DEF Crash, AssistantInv
<1>2. Answering' = {}
  BY DEF Crash, Answering
<1>3. upsets' # 0
  BY InboxAssumption DEF Crash, Upset, AssistantInv, InboxInv, TypeOK
<1>4. AssistantTypeOK' /\ BlankIsKnown' /\ SilenceHasACause'
  BY <1>1, <1>2, <1>3
  DEF Crash, InboxInv, AssistantInv, AssistantTypeOK, BlankIsKnown, SilenceHasACause
<1>5. QED BY <1>1, <1>4 DEF AssistantInv

-----------------------------------------------------------------------------
(***************************************************************************)
(* The context of a goroutine.                                             *)
(***************************************************************************)

\* A set that has 0 and, with a number, the next one has all numbers.
LEMMA Induction ==
    ASSUME NEW T, 0 \in T, \A n \in Nat : n \in T => n + 1 \in T
    PROVE  \A n \in Nat : n \in T
<1> DEFINE R == OpToRel(<, Nat)
           Gap == {n \in Nat : n \notin T}
<1> SUFFICES ASSUME Gap # {} PROVE FALSE
  OBVIOUS
<1>1. \A x, y \in Nat : x < y => <<x, y>> \in R
  BY DEF OpToRel
<1>2. Gap \subseteq Nat /\ IsWellFoundedOn(R, Nat)
  BY NatLessThanWellFounded
<1> HIDE DEF R
<1>3. PICK x \in Gap : \A y \in Gap : ~(<<y, x>> \in R)
  <2> HIDE DEF Gap
  <2>1. QED BY <1>2, WFMin
<1>4. x \in Nat /\ x - 1 \in Nat /\ x - 1 < x /\ (x - 1) + 1 = x
  BY <1>2
<1>5. x - 1 \notin Gap
  <2>1. <<x - 1, x>> \in R
    BY <1>1, <1>4
  <2> HIDE DEF Gap
  <2>2. QED BY <1>3, <2>1
<1>6. x - 1 \in T
  BY <1>4, <1>5
<1>7. x \in T
  BY <1>4, <1>6
<1>8. QED BY <1>7

\* The rows above i, and the n newest of a set of rows.
Above(U, i) == {j \in U : j > i}

NewestOf(U, n) == {i \in U : Cardinality(Above(U, i)) < n}

\* The n newest rows are n rows, if there are as many.
LEMMA NewestAreAsMany ==
    ASSUME NEW U \in SUBSET Ids, NEW k \in Nat, k <= Cardinality(U)
    PROVE  Cardinality(NewestOf(U, k)) = k
<1> DEFINE T == {n \in Nat : n <= Cardinality(U) => Cardinality(NewestOf(U, n)) = n}
<1>1. \A S \in SUBSET U : IsFiniteSet(S) /\ Cardinality(S) \in Nat
  BY IdsAreFinite
<1>2. \A i \in U : i \in Nat /\ Above(U, i) \subseteq U
  BY InboxAssumption DEF Ids, Above
<1>3. \A n : NewestOf(U, n) \subseteq U
  BY DEF NewestOf
<1>4. 0 \in T
  <2>1. NewestOf(U, 0) = {}
    BY <1>1, <1>2 DEF NewestOf
  <2>2. QED BY <2>1, FS_EmptySet
<1>5. ASSUME NEW n \in Nat, n \in T PROVE n + 1 \in T
  <2> SUFFICES ASSUME n + 1 <= Cardinality(U) PROVE Cardinality(NewestOf(U, n + 1)) = n + 1
    OBVIOUS
  <2> DEFINE N == NewestOf(U, n)
             Old == U \ N
  <2>1. Cardinality(N) = n /\ n < Cardinality(U)
    BY <1>1, <1>5
  <2>2. Old # {} /\ Old \in SUBSET Ids
    BY <1>3, <2>1
  <2> DEFINE x == Last(Old)
  <2>3. x \in Old /\ \A j \in Old : j <= x
    <3> HIDE DEF Old
    <3>1. QED BY <2>2, LastIsLast
  <2> HIDE DEF x
  <2>4. x \in U /\ x \notin N /\ x \in Nat
    BY <1>2, <2>3
  <2>5. ASSUME NEW t \in N PROVE t > x
    <3>1. t \in U /\ t \in Nat /\ Cardinality(Above(U, t)) < n
      BY <1>2 DEF NewestOf
    <3>2. ~(t < x)
      <4> SUFFICES ASSUME t < x PROVE FALSE
        OBVIOUS
      <4>1. Above(U, x) \subseteq Above(U, t)
        <5>1. t < x /\ t \in Nat /\ x \in Nat /\ \A j \in U : j \in Nat
          BY <1>2, <2>4, <3>1
        <5> HIDE DEF N
        <5>2. \A j \in U : j > x => j > t
          BY <5>1
        <5>3. QED BY <5>2 DEF Above
      <4>2. Cardinality(Above(U, x)) <= Cardinality(Above(U, t))
        BY <1>1, <1>2, <3>1, <4>1, FS_Subset
      <4>3. Cardinality(Above(U, x)) < n
        BY <1>1, <1>2, <2>4, <3>1, <4>2
      <4>4. QED BY <2>4, <4>3 DEF NewestOf
    <3>3. t # x
      BY <2>4
    <3>4. QED BY <2>4, <3>1, <3>2, <3>3
  <2>6. Above(U, x) = N
    <3>1. \A j \in U : j > x => j \in N
      BY <1>2, <2>3, <2>4
    <3>2. N \subseteq U
      BY <1>3
    <3> HIDE DEF N
    <3>3. QED BY <2>5, <3>1, <3>2 DEF Above
  <2>7. NewestOf(U, n + 1) = N \cup {x}
    <3>1. x \in NewestOf(U, n + 1)
      BY <2>1, <2>4, <2>6 DEF NewestOf
    <3>2. N \subseteq NewestOf(U, n + 1)
      BY <1>1, <1>2 DEF NewestOf
    <3>3. ASSUME NEW y \in NewestOf(U, n + 1), y \notin N PROVE y = x
      <4>1. y \in Old /\ y \in U /\ y \in Nat /\ y <= x
        BY <1>2, <2>3, <3>3 DEF NewestOf
      <4>2. ~(y < x)
        <5> SUFFICES ASSUME y < x PROVE FALSE
          OBVIOUS
        <5>1. N \cup {x} \subseteq Above(U, y)
          <6>1. \A t \in N : t \in U /\ t \in Nat /\ t > y
            BY <1>2, <1>3, <2>4, <2>5, <4>1
          <6>2. QED BY <2>4, <4>1, <6>1 DEF Above
        <5>2. Cardinality(N \cup {x}) = n + 1
          BY <1>1, <1>3, <2>1, <2>4, FS_AddElement
        <5>3. Cardinality(N \cup {x}) <= Cardinality(Above(U, y))
          BY <1>1, <1>2, <4>1, <5>1, FS_Subset
        <5>4. Cardinality(Above(U, y)) < n + 1
          BY <3>3 DEF NewestOf
        <5>5. Cardinality(Above(U, y)) \in Nat
          BY <1>1, <1>2, <4>1
        <5>6. QED BY <5>2, <5>3, <5>4, <5>5
      <4>3. QED BY <2>4, <4>1, <4>2
    <3> HIDE DEF N
    <3>4. QED BY <3>1, <3>2, <3>3
  <2>8. QED BY <1>1, <1>3, <2>1, <2>4, <2>7, FS_AddElement
<1>6. k \in T
  <2> HIDE DEF T
  <2>1. QED BY <1>4, <1>5, Induction
<1>7. QED BY <1>6

\* The latest messages have the question, or as many that are newer.
LEMMA LatestHaveTheQuestion ==
    ASSUME InboxInv, NEW q \in Questions \ hidden
    PROVE  \/ q \in ListRecentConversation
           \/ Cardinality({i \in ListRecentConversation : i > q}) = ContextSize
<1> DEFINE S == With(Bot) \ hidden
           U == Above(S, q)
           C == ListRecentConversation
<1>1. S \in SUBSET Ids /\ U \in SUBSET Ids /\ q \in S /\ \A i \in S : i \in Nat
  <2>1. With(Bot) \in SUBSET Ids
    BY RowsOfIds, AssistantAssumption
  <2>2. S \in SUBSET Ids /\ q \in S
    BY <2>1 DEF Questions
  <2>3. \A i \in Ids : i \in Nat
    BY InboxAssumption DEF Ids
  <2> HIDE DEF S
  <2>4. QED BY <2>2, <2>3 DEF Above
<1>2. C = {i \in S : Cardinality(Above(S, i)) < ContextSize}
  BY DEF ListRecentConversation, Above
<1> HIDE DEF S, C
<1> SUFFICES ASSUME q \notin C PROVE Cardinality({i \in C : i > q}) = ContextSize
  BY DEF C
<1>3. ContextSize \in Nat /\ ContextSize <= Cardinality(U)
  BY <1>1, <1>2, IdsAreFinite, AssistantAssumption
<1>4. \A i \in U : i \in S /\ i \in Nat /\ i > q /\ Above(S, i) = Above(U, i)
  BY <1>1 DEF Above
<1>5. {i \in C : i > q} = NewestOf(U, ContextSize)
  <2>1. \A i : i \in U <=> i \in S /\ i > q
    BY DEF Above
  <2> HIDE DEF U
  <2>2. QED BY <1>2, <1>4, <2>1 DEF NewestOf
<1> HIDE DEF U
<1>6. QED BY <1>1, <1>3, <1>5, NewestAreAsMany

\* What is hidden stays hidden; a goroutine keeps its question and its context.
LEMMA ContextStep ==
    ASSUME AssistantInv, ContextHasTheQuestion, [AssistantNext]_assistantVars
    PROVE  ContextHasTheQuestion'
<1>1. hidden \subseteq hidden'
  <2>1. ASSUME Others PROVE hidden \subseteq hidden'
    BY <2>1 DEF Others, Increment, SaveMessage, SaveMedia, Page, loadEntireConversation, selectPeer,
       List, ClearConversation, loadConversation, NextPage, AnswerLost, Pushed,
       DeleteConversationMessages, loadOfflineMessages, Reload
  <2>2. ASSUME NEW i \in Ids, AskBot(i) \/ CountExpired(i) PROVE UNCHANGED hidden
    BY <2>2 DEF AskBot, SendMessage, CountExpired
  <2>3. ASSUME NEW g \in Goroutines, replyFromAI(g) \/ Expire(g) PROVE UNCHANGED hidden
    BY <2>3 DEF replyFromAI, ReadContext, generateAIReply, ExecTools, SayNothing, Expire,
       saveBotMessage, vars
  <2>4. CASE Crash \/ UNCHANGED assistantVars
    BY <2>4 DEF Crash, assistantVars, vars
  <2>5. QED BY <2>1, <2>2, <2>3, <2>4 DEF AssistantNext
<1> DEFINE Keeps(h) == /\ h \in Answering
                      /\ chat'[h].question = chat[h].question
                      /\ chat'[h].context = chat[h].context
           Fresh(h) == /\ chat'[h].question \in Questions
                       /\ chat'[h].context = ListRecentConversation
<1>2. ASSUME NEW h \in Answering' PROVE Keeps(h) \/ Fresh(h)
  <2>1. chat \in [Goroutines -> Chat \cup {Idle}] /\ \A q : q \in Chat => q # Idle
    BY DEF AssistantInv, AssistantTypeOK, Chat, Idle
  <2>2. h \in Goroutines /\ chat'[h] # Idle
    BY DEF Answering
  <2>3. CASE chat' = chat
    BY <2>2, <2>3 DEF Answering
  <2>4. ASSUME NEW g \in Goroutines, NEW q \in waiting, ReadContext(g, q), chat' # chat
        PROVE  Keeps(h) \/ Fresh(h)
    <3>1. PICK stage : chat' = [chat EXCEPT ![g] = [stage |-> stage, question |-> q, round |-> 0,
                                     context |-> ListRecentConversation]]
      BY <2>4 DEF ReadContext
    <3>2. q \in Questions
      BY DEF AssistantInv, AssistantTypeOK
    <3>3. CASE h = g
      BY <2>1, <2>2, <3>1, <3>2, <3>3
    <3>4. CASE h # g
      <4>1. chat'[h] = chat[h]
        BY <2>1, <2>2, <3>1, <3>4
      <4>2. QED BY <2>2, <4>1 DEF Answering
    <3>5. QED BY <3>3, <3>4
  <2>5. ASSUME NEW g \in Goroutines, NEW k, g \in Answering,
               chat' = [chat EXCEPT ![g] = k],
               k = Idle \/ (k.question = chat[g].question /\ k.context = chat[g].context)
        PROVE  Keeps(h)
    <3>1. CASE h = g
      BY <2>1, <2>2, <2>5, <3>1
    <3>2. CASE h # g
      <4>1. chat'[h] = chat[h]
        BY <2>1, <2>2, <2>5, <3>2
      <4>2. QED BY <2>2, <4>1 DEF Answering
    <3>3. QED BY <3>1, <3>2
  <2>6. ASSUME NEW g \in Goroutines, generateAIReply(g) \/ ExecTools(g) PROVE Keeps(h)
    <3>1. g \in Answering /\ chat[g] \in Chat
      BY <2>1, <2>6 DEF generateAIReply, ExecTools, Answering
    <3>2. \/ \E stage \in {"replying", "telling", "nothing", "tools"} :
                chat' = [chat EXCEPT ![g].stage = stage]
          \/ chat' = [chat EXCEPT ![g].stage = "asking", ![g].round = @ + 1]
      BY <2>6 DEF generateAIReply, ExecTools, Goes, ErrorIsTold
    <3>3. \E k : /\ chat' = [chat EXCEPT ![g] = k]
                 /\ k.question = chat[g].question /\ k.context = chat[g].context
      BY <3>1, <3>2 DEF Chat
    <3>4. QED BY <2>5, <3>1, <3>3
  <2>7. ASSUME NEW g \in Goroutines,
               SayNothing(g) \/ \E i \in Ids : saveBotMessage(g, i)
        PROVE  Keeps(h)
    <3>1. g \in Answering /\ chat' = [chat EXCEPT ![g] = Idle]
      BY <2>7 DEF SayNothing, saveBotMessage, Ends
    <3>2. QED BY <2>5, <3>1
  <2>8. CASE Crash
    BY <2>2, <2>8 DEF Crash
  <2>9. CASE \/ Others /\ UNCHANGED chatVars
             \/ \E i \in Ids : AskBot(i) \/ CountExpired(i)
             \/ \E g \in Goroutines : Expire(g)
             \/ UNCHANGED assistantVars
    BY <2>3, <2>9 DEF AskBot, CountExpired, Expire, chatVars, assistantVars
  <2>10. QED BY <2>3, <2>4, <2>6, <2>7, <2>8, <2>9 DEF AssistantNext, replyFromAI
<1>3. ASSUME NEW h \in Answering'
      PROVE  \/ chat'[h].question \in chat'[h].context \cup hidden'
             \/ Cardinality({i \in chat'[h].context : i > chat'[h].question}) = ContextSize
  <2>1. CASE Keeps(h)
    BY <1>1, <2>1 DEF ContextHasTheQuestion
  <2>2. CASE Fresh(h)
    BY <1>1, <2>2, LatestHaveTheQuestion DEF AssistantInv
  <2>3. QED BY <1>2, <2>1, <2>2
<1>4. QED BY <1>3 DEF ContextHasTheQuestion

-----------------------------------------------------------------------------
LEMMA AssistantInvNext == AssistantInv /\ [AssistantNext]_assistantVars => AssistantInv'
<1> SUFFICES ASSUME AssistantInv, [AssistantNext]_assistantVars PROVE AssistantInv'
  OBVIOUS
<1>1. ASSUME NEW g \in Goroutines, replyFromAI(g) \/ Expire(g) PROVE AssistantInv'
  BY <1>1, ReadContextKeeps, RoundKeeps, ReplyKeeps DEF replyFromAI
<1>2. CASE UNCHANGED assistantVars
  <2>1. InboxInv' /\ Questions' = Questions /\ UNCHANGED upsets
    BY <1>2, InboxStays DEF assistantVars, vars, AssistantInv
  <2>2. QED
    BY <1>2, <2>1
    DEF InboxInv, assistantVars, chatVars, AssistantInv, AssistantTypeOK, BlankIsKnown,
        SilenceHasACause, Answering
<1>3. QED
  BY <1>1, <1>2, OthersKeep, AskBotKeeps, CountExpiredKeeps, CrashKeeps DEF AssistantNext

LEMMA Invariance == AssistantSpec => []AssistantInv
<1>1. QED BY AssistantInvInit, AssistantInvNext, PTL DEF AssistantSpec

\* Rows, requests, goroutines and questions have the types the code gives them.
THEOREM InboxTypeCorrect == AssistantSpec => []AssistantTypeOK
<1>1. AssistantInv => AssistantTypeOK
  BY DEF AssistantInv
<1>2. QED BY <1>1, Invariance, PTL

\* What came in and was not shown is counted, but for the known ways to lose a count.
THEOREM UnshownStaysCounted == AssistantSpec => []UnshownIsCounted
<1>1. AssistantInv => UnshownIsCounted
  <2> SUFFICES ASSUME AssistantInv, NEW p \in Peers, NEW i \in Inbound \cap With(p)
               PROVE  i \in ListUsers(p) \cup owed \cup Carried \cup accounted
                                         \cup hidden \cup overtaken
    BY DEF UnshownIsCounted
  <2>1. \A s \in Active : Kept(load[s]) \subseteq Carried
    BY DEF Kept, Carried, Rows
  <2>2. QED BY <2>1 DEF AssistantInv, InboxInv, Counted, ListUsers, Entries
<1>2. QED BY <1>1, Invariance, PTL

\* The offline cursor passes only what committed late.
THEOREM PullsMissOnlyLateCommits == AssistantSpec => []OfflineMissesOnlyLateCommits
<1>1. AssistantInv => OfflineMissesOnlyLateCommits
  BY DEF AssistantInv, InboxInv
<1>2. QED BY <1>1, Invariance, PTL

(***************************************************************************)
(* Unless something failed, whoever waits for an answer of the bot in vain *)
(* was told nothing by the model, or the goroutine's time was over.        *)
(***************************************************************************)
THEOREM QuestionsAreAnswered == AssistantSpec => []SilenceHasACause
<1>1. AssistantInv => SilenceHasACause
  BY DEF AssistantInv
<1>2. QED BY <1>1, Invariance, PTL

(***************************************************************************)
(* The context a goroutine gives the model has the question, unless I      *)
(* deleted it or it is full of newer messages.                             *)
(***************************************************************************)
THEOREM QuestionInContext == AssistantSpec => []ContextHasTheQuestion
<1>1. AssistantInit => ContextHasTheQuestion
  BY DEF AssistantInit, ContextHasTheQuestion, Answering
<1>2. QED BY <1>1, Invariance, ContextStep, PTL DEF AssistantSpec
=============================================================================
