-------------------------------- MODULE Inbox --------------------------------
(***************************************************************************)
(* What one user, me, receives and reads: the rows of his private          *)
(* conversations, their unread entries in Redis, and the page that opens,  *)
(* loads, pulls and deletes them.                                          *)
(*                                                                         *)
(* Ids are handed out in order and commit in any order.  A save commits    *)
(* first and counts later; a conversation is listed first, cleared of its  *)
(* unread entries then, and shown when the answer arrives, which other     *)
(* answers, pushes and clicks may overtake.  A push may come at any time   *)
(* after the commit, again, or never.  Not modelled: groups, edits and     *)
(* recalls (Push), favourites, the checks of friendship (Social),   *)
(* and the read marks, which are written and never read.                   *)
(***************************************************************************)
EXTENDS Naturals, FiniteSets

CONSTANTS
    Peers,       \* those who write to me and I write to
    NoPeer,      \* no conversation is open
    MaxId,       \* bound: the rows of a behaviour
    PageSize,    \* the limit of a list
    Slots,       \* bound: the page's requests for messages that are under way
    MaxUpsets    \* bound: calls to Redis and answers that fail, and the times I delete messages

ASSUME InboxAssumption ==
    /\ NoPeer \notin Peers
    /\ MaxId \in Nat
    /\ PageSize \in Nat \ {0}
    /\ MaxUpsets \in Nat

VARIABLES
    sent,      \* sent[i]: the committed row i, or None
    owed,      \* the rows whose save has still to count them
    unread,    \* the ids in my unread sets
    hidden,    \* the rows I deleted for myself
    selected,  \* the peer whose conversation is open
    load,      \* load[s]: a request for messages under way
    cursor,    \* the offline cursor of the page
    pulled,    \* history: what offline pulls returned
    accounted, \* history: rows that were shown, or swept, or whose entry or answer was lost
    overtaken, \* history: rows that committed after a greater one
    upsets     \* how many of them there were

rowVars == <<sent, owed, overtaken>>
pageVars == <<selected, load>>
offlineVars == <<cursor, pulled>>
vars == <<rowVars, unread, hidden, pageVars, offlineVars, accounted, upsets>>

Ids == 1..MaxId
None == [peer |-> NoPeer, mine |-> FALSE]

Committed == {i \in Ids : sent[i] # None}
With(p) == {i \in Committed : sent[i].peer = p}
Inbound == {i \in Committed : ~sent[i].mine}

Last(S) == CHOOSE i \in S : \A j \in S : j <= i
FirstPage(S) == {i \in S : Cardinality({j \in S : j < i}) < PageSize}

NoLoad == [stage |-> "none"]
Load == [stage  : {"sent", "listed", "cleared"},
         all    : BOOLEAN,       \* of "select all": page after page
         peer   : Peers,         \* whose messages it asks for,
         after  : 0..MaxId,      \* after which id
         page   : SUBSET Ids,    \* the answer
         before : SUBSET Ids]    \* the pages before it

Opening(p) == [stage |-> "sent", all |-> FALSE, peer |-> p, after |-> 0, page |-> {}, before |-> {}]

Active == {s \in Slots : load[s] # NoLoad}
Rows(s) == load[s].page \cup load[s].before
Carried == UNION {Rows(s) : s \in Active}

Init ==
    /\ sent = [i \in Ids |-> None]
    /\ owed = {} /\ unread = {} /\ hidden = {}
    /\ selected = NoPeer
    /\ load = [s \in Slots |-> NoLoad]
    /\ cursor = 0
    /\ pulled = {} /\ accounted = {} /\ overtaken = {}
    /\ upsets = 0

Upset == upsets < MaxUpsets /\ upsets' = upsets + 1

-----------------------------------------------------------------------------
(***************************************************************************)
(* A message is saved, then counted; an error of the count is only logged. *)
(***************************************************************************)
SaveAndEnqueue(i, p, mine) ==
    /\ sent[i] = None
    /\ sent' = [sent EXCEPT ![i] = [peer |-> p, mine |-> mine]]
    /\ overtaken' = IF \E j \in Committed : j > i THEN overtaken \cup {i} ELSE overtaken

SaveMessage(i, p) ==
    /\ SaveAndEnqueue(i, p, FALSE)
    /\ owed' = owed \cup {i}
    /\ UNCHANGED <<unread, hidden, pageVars, offlineVars, accounted, upsets>>

\* A file: it is uploaded first, and counted as a text is.  A failing URL fails nothing else.
SaveMedia(i, p) ==
    /\ SaveAndEnqueue(i, p, FALSE)
    /\ owed' = owed \cup {i}
    /\ UNCHANGED <<unread, hidden, pageVars, offlineVars, accounted, upsets>>

\* One of my own: its count is the peer's.
SendMessage(i, p) ==
    /\ SaveAndEnqueue(i, p, TRUE)
    /\ UNCHANGED <<owed, unread, hidden, pageVars, offlineVars, accounted, upsets>>

\* ZADD; or an error, or the process is gone.
Increment(i) ==
    /\ i \in owed
    /\ owed' = owed \ {i}
    /\ \/ unread' = unread \cup {i} /\ UNCHANGED <<accounted, upsets>>
       \/ Upset /\ accounted' = accounted \cup {i} /\ UNCHANGED unread
    /\ UNCHANGED <<sent, overtaken, hidden, pageVars, offlineVars>>

-----------------------------------------------------------------------------
(***************************************************************************)
(* The page opens a conversation, or lists all of it.                      *)
(***************************************************************************)
Request(s, r) == load[s] = NoLoad /\ load' = [load EXCEPT ![s] = r]

selectPeer(s, p) ==
    /\ selected' = p
    /\ Request(s, Opening(p))
    /\ UNCHANGED <<rowVars, unread, hidden, offlineVars, accounted, upsets>>

loadEntireConversation(s) ==
    /\ selected # NoPeer
    /\ \A t \in Active : ~load[t].all
    /\ Request(s, [Opening(selected) EXCEPT !.all = TRUE])
    /\ UNCHANGED <<rowVars, unread, hidden, selected, offlineVars, accounted, upsets>>

\* The oldest rows after an id, but what I deleted.
ListConversation(p, after) == FirstPage({i \in With(p) \ hidden : i > after})

\* Conversation, first half: the rows.
List(s) ==
    /\ load[s] # NoLoad /\ load[s].stage = "sent"
    /\ load' = [load EXCEPT ![s].stage = "listed",
                            ![s].page = ListConversation(load[s].peer, load[s].after)]
    /\ UNCHANGED <<rowVars, unread, hidden, selected, offlineVars, accounted, upsets>>

\* Mutant: every page marks everything read.
ThroughTheEnd(r) == MaxId

\* From the beginning, everything is marked read; a later page, through its last row.
Through(r) ==
    IF r.after = 0 THEN MaxId
    ELSE IF r.page = {} THEN r.after ELSE Last(r.page)

\* The history keeps what an opening sweeps, and what lies before a later page.
Swept(r, cleared) == IF r.after = 0 THEN cleared \ r.page ELSE {i \in cleared : i <= r.after}

\* The unread entries of a peer, and those of them through an id.
Entries(p) == unread \cap With(p)

EntriesThrough(p, id) == {i \in Entries(p) : i <= id}

\* Conversation, second half: the unread entries; without them there is no answer.
ClearConversation(s) ==
    LET r == load[s]
        cleared == EntriesThrough(r.peer, Through(r))
    IN  /\ r # NoLoad /\ r.stage = "listed"
        /\ \/ /\ load' = [load EXCEPT ![s].stage = "cleared"]
              /\ unread' = unread \ cleared
              /\ accounted' = accounted \cup Swept(r, cleared)
              /\ UNCHANGED upsets
           \/ /\ Upset
              /\ load' = [load EXCEPT ![s] = NoLoad]
              /\ accounted' = accounted \cup r.before
              /\ UNCHANGED unread
        /\ UNCHANGED <<rowVars, hidden, selected, offlineVars>>

\* An answer is shown, whatever is open by then.
loadConversation(s) ==
    /\ load[s] # NoLoad /\ load[s].stage = "cleared" /\ ~load[s].all
    /\ accounted' = accounted \cup load[s].page
    /\ load' = [load EXCEPT ![s] = NoLoad]
    /\ UNCHANGED <<rowVars, unread, hidden, selected, offlineVars, upsets>>

\* The next page, of the conversation that is open by then; after a short one all is shown.
NextPage(s) ==
    /\ load[s] # NoLoad /\ load[s].stage = "cleared" /\ load[s].all
    /\ \/ /\ Cardinality(load[s].page) < PageSize
          /\ accounted' = accounted \cup Rows(s)
          /\ load' = [load EXCEPT ![s] = NoLoad]
       \/ /\ Cardinality(load[s].page) >= PageSize
          /\ load' = [load EXCEPT ![s] = [Opening(selected) EXCEPT
                          !.all = TRUE, !.after = Last(load[s].page), !.before = Rows(s)]]
          /\ UNCHANGED accounted
    /\ UNCHANGED <<rowVars, unread, hidden, selected, offlineVars, upsets>>

AnswerLost(s) ==
    /\ s \in Active
    /\ Upset
    /\ load' = [load EXCEPT ![s] = NoLoad]
    /\ accounted' = accounted \cup Rows(s)
    /\ UNCHANGED <<rowVars, unread, hidden, selected, offlineVars>>

\* A message of the open conversation reaches the page: it is shown, and the conversation is
\* loaded again if the peer wrote it.
Pushed(i, s) ==
    /\ i \in Committed /\ sent[i].peer = selected
    /\ accounted' = accounted \cup {i}
    /\ IF sent[i].mine THEN UNCHANGED load ELSE Request(s, Opening(selected))
    /\ UNCHANGED <<rowVars, unread, hidden, selected, offlineVars, upsets>>

\* A row of the open conversation that was on the page, or all its rows.
Deletions == {{i} : i \in accounted \cap With(selected)} \cup {With(selected)}

\* They are deleted for me; their unread entries and their outbox rows stay.
DeleteConversationMessages ==
    /\ selected # NoPeer
    /\ Upset
    /\ \E rows \in Deletions : hidden' = hidden \cup rows
    /\ UNCHANGED <<rowVars, unread, pageVars, offlineVars, accounted>>

-----------------------------------------------------------------------------
\* What came in after the cursor, the oldest first.
ListOffline(after) == FirstPage({i \in Inbound : i > after})

Offline == ListOffline(cursor)

\* Mutant: the cursor goes to the newest row.
PullNewest ==
    /\ Offline # {}
    /\ pulled' = pulled \cup Offline
    /\ cursor' = Last(Inbound)
    /\ UNCHANGED <<rowVars, unread, hidden, pageVars, accounted, upsets>>

\* A page of it moves the cursor, kept in the browser, to its last row.  It is counted on the
\* screen, not shown.
loadOfflineMessages ==
    /\ Offline # {}
    /\ pulled' = pulled \cup Offline
    /\ cursor' = Last(Offline)
    /\ UNCHANGED <<rowVars, unread, hidden, pageVars, accounted, upsets>>

\* The page is loaded anew.
Reload ==
    /\ selected' = NoPeer
    /\ load' = [s \in Slots |-> NoLoad]
    /\ accounted' = accounted \cup Carried
    /\ UNCHANGED <<rowVars, unread, hidden, offlineVars, upsets>>

-----------------------------------------------------------------------------
Page(s) ==
    \/ loadEntireConversation(s) \/ \E p \in Peers : selectPeer(s, p)
    \/ List(s) \/ ClearConversation(s)
    \/ loadConversation(s) \/ NextPage(s) \/ AnswerLost(s)
    \/ \E i \in Ids : Pushed(i, s)

Next ==
    \/ \E i \in Ids : Increment(i) \/ \E p \in Peers : SaveMessage(i, p) \/ SaveMedia(i, p) \/ SendMessage(i, p)
    \/ \E s \in Slots : Page(s)
    \/ DeleteConversationMessages \/ loadOfflineMessages \/ Reload

Spec == Init /\ [][Next]_vars

-----------------------------------------------------------------------------
TypeOK ==
    /\ sent \in [Ids -> [peer : Peers, mine : BOOLEAN] \cup {None}]
    /\ owed \subseteq Inbound /\ unread \subseteq Inbound
    /\ hidden \subseteq Committed
    /\ selected \in Peers \cup {NoPeer}
    /\ load \in [Slots -> Load \cup {NoLoad}]
    /\ \A s \in Active : Rows(s) \subseteq Committed /\ selected # NoPeer
    /\ cursor \in 0..MaxId
    /\ pulled \subseteq Inbound
    /\ accounted \subseteq Committed /\ overtaken \subseteq Committed
    /\ upsets \in 0..MaxUpsets

(***************************************************************************)
(* What came in and was not shown is in the unread count of its peer, or   *)
(* about to be counted or shown.  Unless it was deleted, or its entry or   *)
(* answer was lost; or a conversation was opened, which sweeps the count   *)
(* together with what its first page has no place for and what was         *)
(* committed since it was listed; or a later page took for read what lies  *)
(* before it: a late commit, or, when another conversation was opened in   *)
(* the meantime, that one's older messages.                                *)
(***************************************************************************)
ListUsers(p) == Entries(p)

UnshownIsCounted ==
    \A p \in Peers : \A i \in Inbound \cap With(p) :
        i \in ListUsers(p) \cup owed \cup Carried \cup accounted \cup hidden \cup overtaken

(***************************************************************************)
(* The offline cursor passes no message that was not pulled, but one that  *)
(* committed after a greater id: that one is never pulled.                 *)
(***************************************************************************)
OfflineMissesOnlyLateCommits == \A i \in Inbound : i <= cursor => i \in pulled \cup overtaken

(***************************************************************************)
(* Opening a conversation loads its latest page.  (It loads the oldest.)   *)
(***************************************************************************)
OpeningShowsTheNewest ==
    [][\A s \in Active :
        LET rows == With(load[s].peer) \ hidden
        IN  /\ load[s].stage = "sent" /\ ~load[s].all
            /\ load'[s] # NoLoad /\ load'[s].stage = "listed"
            /\ rows # {}
            => Last(rows) \in load'[s].page]_vars
=============================================================================
