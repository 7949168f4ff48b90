# Star-IM: a TLA+ verification project

Star-IM is an instant-messaging server in Go (MySQL, Redis, RabbitMQ,
Elasticsearch, MinIO) with a Vue front end. This directory holds TLA+ models of
its stateful parts, TLC configurations that check them on small instances, and
proofs, checked by TLAPS, of the properties that matter most.

    tlc -workers 2 -config MCSearch.cfg MCSearch.tla     # one run
    tlapm OutboxProofs.tla                               # one module's proofs

`PROJECT.json` lists the components, the runs, one mutation of the code for
every property (which the run must catch), the source lines of every
definition, the hazards and the theorems. Paths below are relative to `src/`.

## 1. The system

A browser sends HTTP requests and WebSocket frames to one of several identical
server processes (nodes). A request ends in a MySQL transaction; what other
users must see of it is written in the same transaction as a row of
`outbox_events`. A dispatcher in every process publishes these rows to a
RabbitMQ exchange. Every process consumes its own queue of that exchange and
pushes to those of its WebSocket connections that an event concerns; one shared
queue feeds the search index.

    browser --HTTP/WS--> service --tx--> MySQL (messages + outbox_events)
                                            | Claim / Mark (lease)
                                        dispatcher --confirm--> RabbitMQ
                                            | fanout          | shared queue
                              node queue -> Hub.Dispatch*     index consumer -> Elasticsearch
                                            | Redis presence
                                        Client.send -> writePump --WS--> browser window

| Component | Code | State | Operations | What is hard | What makes it correct |
|---|---|---|---|---|---|
| Message store | `internal/repository/mysql/message_repository.go`, `db/schema.sql` | `messages`, `outbox_events` | SaveAndEnqueue, Edit, Recall, reads | edit against recall, commit order against ids | the last event of a message tells its row |
| Outbox dispatcher | `internal/outbox/dispatcher.go`, `outbox_repository.go`, `internal/mq/rabbitmq.go` | leases, backoffs, attempts, the channel | Claim, publish, confirm, MarkPublished, MarkFailed | several dispatchers, expiring leases, crashes, lost confirms | nothing lost, duplicates only for a cause, everything published in the end |
| Event push | `internal/chat/hub.go` Dispatch*, `internal/mq/rabbitmq.go` consumers | node queues | dispatch, ack, requeue | at-least-once, reordering, partial failure | readers see what the row says |
| WebSocket hub | `internal/chat/hub.go`, `internal/presence/redis/presence.go` | `clients`, `Client.send`, Redis `online:*` | register, deliver, readPump, writePump, heartbeat | late teardown, full channels, TTLs, several nodes | the newest connection stays, presence heals, goroutines end |
| Browser window | `frontend/src/App.vue` | `messages` of the open conversation | append, recall, edit, history | a history answer racing with pushes | same as event push |
| Red packets | `internal/service/red_packet_service.go`, `red_packet_repository.go`, handler | balances, codes, packets, receipts | redeem, send, grab | row locks, duplicate grabs, rollbacks, a dissolved group | no fen lost or created, fair shares |
| Groups | `internal/service/group_service.go`, `group_repository.go` | `chat_groups`, `group_members` | create, invite, remove, leave, roles, mutes, dissolve | check-then-act across transactions | nothing outlives a group, no role reset |
| Friends and requests | `internal/service/social_service.go`, `social_repository.go` | `friendships`, `friend_requests`, `group_join_requests` | ask, answer, remove | overlapping answers, mirror requests | mutual friendship, answers that stand |
| Inbox: unread counts, offline sync, hides | `internal/unread/redis/store.go`, `internal/service/message_service.go`, `message_repository.go` | sorted sets of unread ids in Redis, hidden rows, the page's offline cursor | count after a commit, list, clear through an id, pull after a cursor, delete for oneself | increments against clears, ids committing out of order, answers that overtake each other | what was not shown is counted; a pull misses nothing it passes |
| AI replies | `internal/ai`, `message_service.go` | goroutines | read the context, ask the model, run tools, save the reply | deadline, a context used after its end, endless tool calls, crashes | a question is worked on until it is answered, and that ends |
| Search | `internal/search/elasticsearch`, index consumer in `internal/app` | documents, a shared durable queue | index, search | unordered whole-document writes, requeues | the index follows the rows |
| Sessions, browser session | `internal/auth`, `internal/tokenblacklist`, `middleware`, `auth_logout_handler.go`, `App.vue` | JWT, Redis blacklist, `localStorage`, timers and sockets of tabs | login, load, poll, sign out, handshake | whole-second expiry against the entry's TTL, tabs that share one token, late answers | a revoked token is refused until its last second, a dead session ends, a living one does not |
| Rate limiter | `internal/ratelimit` | a Redis counter with an expiry | check | the window's boundary | at most twice the limit in any window |
| Start-up, AI friend account, registration | `internal/app/app.go`, `auth_service.go`, `user_repository.go`, `storage/minio`, `elasticsearch` | bucket, index, the bot's account, friendships | look, make, fill, listen, register | processes that start at once, half-finished registrations | one bot, everyone's friend; every start succeeds in the end |
| Handlers, configuration, load test | rest | none of their own | - | I/O | - |

## 2. The modules

| Module | Models | Extends or instantiates |
|---|---|---|
| `MessageStore` | the three message transactions, the recall window, the events they write | |
| `Feed` | abstract: events are enqueued with their change, accepted in any order and any number of times, settled only if accepted | `MessageStore` |
| `Outbox` | dispatchers, leases, publisher confirms, marks, crashes | `MessageStore`; refines `Feed` |
| `Push` | node queues, handlers, presence, connections, browsers | instantiates `Feed` for what reaches the broker |
| `Hub` | one connection's life in detail: both pumps, the send channel, the hub's map, presence | |
| `RedPacket` | redeeming, sending, grabbing, and the group around them | |
| `Social` | friends, requests, one group and its members | |
| `SearchIndex` | the index queue, its consumers, the documents and the search | `Outbox` |
| `Inbox` | one user's conversations: rows, unread entries, hides, the page and its offline cursor | |
| `Assistant` | the AI friend that answers in one of these conversations | `Inbox` |
| `Gate` | tabs, tokens, blacklist, handshake, login window | |
| `Startup` | processes that start, the bot's account, registrations | |
| `StoreProofs`, `OutboxProofs`, `PushProofs`, `HubProofs`, `SumProofs`, `SocialProofs`, `InboxProofs`, `StartupProofs` | theorems | the module they name (`StoreProofs`: `MessageStore`; `OutboxProofs`: `SearchIndex` and so `Outbox`; `SumProofs`: `RedPacket` and `Gate`; `InboxProofs`: `Assistant`) |
| `MC*` | instances for TLC | the module they name (`MCInbox`: `Assistant`) |

`Outbox` shows that the dispatchers implement `Feed`; `Push` builds on `Feed`
only. So the chain from a committed row to a browser is checked in two halves
that meet in one abstract specification, each small enough for TLC. `Hub`
refines by hand what `Push` has as single steps (`Connect`, `Disconnect`,
`Deliver`); they are not formally related. The other consumer of the broker,
the index, is composed with the dispatchers themselves, so that a liveness
property goes all the way from a saved message to a search that finds it.

### MessageStore, Outbox

State: the rows of a message (a text is the number of its revision), the
committed outbox rows, and per row `published_at`, `locked_until`,
`available_at`, `attempts`; per dispatcher its place in `DispatchOnce`, its
batch, and its channel.

- A repository transaction is one step: it writes (and so locks) the message row
  first and inserts its event last, so events of one message are ordered by id,
  while different messages may commit in any order of ids (`Enqueue` picks any
  free id above the message's own).
- Times are remaining seconds and only `Tick` moves them. `locked_until < NOW()`
  is strict on whole seconds, hence `LockFor + 1`.
- `retryDelay` gets the attempts `Claim` read before it incremented them
  (`seen`). The marks do not look at who holds the row; the model's do not either.
- `FOR UPDATE SKIP LOCKED` makes overlapping claims take disjoint rows: claims
  are single steps. `ClaimReplyLost` is a claim that committed and whose answer
  was lost.
- `Crash`/`Restart` replace a process; nothing else reopens a channel that
  closed, as in the code.
- Left out: authorship checks, undecodable payloads, the Noop publisher, the
  deletion of pending events by a group's dissolution.

### Push

State: a queue per node, the node a reader is connected to, the one Redis names,
his channel, his window, and a history request under way. The conversation is a
group; a reader is a member other than the author, with one browser.

- `Handle` runs `DispatchMessageCreated` on one event for all members;
  `HandleFails` is its failure after part of them were served (a Redis error):
  the event returns to the queue, at any position.
- `Kind` keeps the order of the code's tests: `EditedAt` before `RecalledAt`.
- `appendMessage`, `applyRecall`, `applyEdit` and the history answer are the
  browser's; an answer replaces the window with rows read earlier.
- A connection ends in one step (see `Hub` for the steps).
- History variables `newest`, `known`, `skewed` say which events a reader got and
  whether an old one arrived after a newer one.
- Left out: private conversations, typing hints, the author's own window, the
  page limit of a history, loss of a consumer's channel without its process.

### Hub

Connections are numbered in the order they register, which the hub's lock
defines. `register` and `unregister` are single steps (they hold `hub.mu` over
the Redis call); `deliver` is two, the lookup under the lock and the send after
it. `readPump` is reading, answering (at `c.send <-`) or leaving; `writePump`
writes or sends its heartbeat. A write fails on a closed socket and may fail to a
browser that left; `ReadFails` covers both the error and the missed pongs. A
presence entry (TTL 60 s) expires on its own only when no writer of the user
renews it (every 30 s).

### RedPacket

Amounts are in fen. Sending is a check, one transaction and then the group
message; grabbing is a check and a transaction split where it gets the packet's
row lock. `randomGrabAmount` is the set of amounts a draw may return. The group
changes between any two steps; its dissolution cascades to the packets, and
`lost` records the money that goes with them. Users are the members other than
the owner, who cannot leave. Left out: InnoDB deadlocks (they are rollbacks, which
`AbortGrab` has), and the queries.

### Social

A call is checked with reads of its own (`SendFriendRequest`, `InviteMember`,
...) and then runs its statement or transaction (`CreateFriendRequest`,
`AddMember`, ...); other calls go in between, and `Fails` ends a call without
effect (an error, a rollback, a crash). The reads of one check are one step. An
answer's first read also fixes the transaction's snapshot, in which
`FirstOrCreate` looks for rows: a row that appeared since makes its insert fail on
the key. Primary and foreign keys are those of `db/schema.sql`. One group, which
is created once; the owner never changes. Left out: announcements and avatars, the
expiry of a mute, the limit of 200 members (checked by `Create` only), the
listings. `EnsureFriendship` is in `Startup`.

### SearchIndex

Adds to `Outbox` the index queue, as the number of copies of each event that wait,
and one document per message. All processes consume the one queue, and a failed
event returns to it, so copies are handled in any order. `Handle` writes a document
whole; a recall is acknowledged without a write. `HandleFails` is an error, a lost
answer or the death of the process before the ack, with the document written or
not. `SearchMessages` is the filter
of the query: sender or receiver, and the peer if one is given. History variables
`written` and `disordered` tell whether an older event was written after a newer
one. Left out: how words match, highlighting, groups.

### Inbox, Assistant

One user ("me"), his private conversations and one page.

- Ids are drawn in order and commit in any order: `SaveMessage`, `SaveMedia` and
  `SendMessage` commit any free id; `overtaken` records those that commit after a
  greater one. `Increment` is the step after the commit that adds the id to the
  Redis set, or fails.
- A request for a conversation is `List`, `ClearConversation` (the server clears
  the unread entries through the last id it returns, or all of them for a
  request from the beginning), and the answer at the browser (`loadConversation`);
  `Slots` bounds how many are under way. `NextPage` is "select all", which lists page
  after page.
- `Pushed` may happen at any time after a commit, again, or never: the guarantees
  of `Push` are not assumed.
- `loadOfflineMessages` moves the cursor to the last row of the answer. The cursor is
  in the browser's storage: `Reload` ends all requests and keeps it.
- `Assistant`: my message to the bot starts a goroutine (`replyFromAI`):
  `ReadContext`, `generateAIReply` (a round with the model), `ExecTools` (the tools it
  calls, and on to the next round, up to `MaxRounds`), `saveBotMessage`. An error, or the
  last round, leads to the stage "telling": the reason is saved as the bot's answer
  (`ErrorIsTold`). An answer of which nothing is left ends the goroutine without one
  (`SayNothing`). Its two minutes may be over at any moment (`Expire`); then every call
  with its context fails, the saving of the reason too. `Crash` loses all goroutines.
  The bot's reply is a row like any other and is counted like one. History:
  `answered`, `blank` (the model said nothing) and `late` (the two minutes are over)
  are written where these things happen, never where a goroutine ends.
- Left out: read marks (written, never read), favourites, groups, what the model
  and the tools say.

### Gate

The tabs of one browser share the stored token and have each their own copy, timer
and socket. Time goes in half seconds: a token is the whole second it expires
in, relative to the clock (the JWT has whole seconds, so two logins in one second
return one token), a Redis entry lives for half seconds. A request is judged when
it is answered, with the token it was sent with (`asked`). `Allow` is the
limiter's counter and its expiry; `recent` remembers the logins let through in the
last `Window` half seconds. Left out: signatures, passwords, other users, the wording
of refusals.

### Startup

`New` of `internal/app` as far as it looks for something and makes it if it is
missing: the bucket, the index and the bot's account; each look and each making is
a step, and between the two another process may be faster. The look for the index
takes every answer but 200 for "missing" (`LookRefused`), so a process also goes to make
what is there. An error ends the process (`log.Fatal`), `New(p)` starts it again. An
id that is drawn for the bot may be somebody's (`IdIsTaken`). `EnsureFriendshipForAll` is one
statement; `FillOneSide` is its mutant. A registration (`Register`) creates the
account and befriends it afterwards (`BotJoins`), or does not get to it.

## 3. What is checked

Every run finishes with two workers in three minutes or less (`inbox` has the most
states, 1.8 million; `outbox`, with its liveness, takes longest).

| Run | Instance | Shows |
|---|---|---|
| `outbox` | 2 dispatchers, 1 message (text), 2 events, batch 2, a lease of one tick, 1 fault, 3 users | `TypeOK`, `PublishedWasAccepted`, `ExclusiveUnlessLate`, `DuplicatesHaveACause`, `FeedSpec` (refinement), `IndexTellsTheRow`, `EventuallyPublished`, `EventuallySearchable` |
| `push` | 2 nodes, 1 reader who moves between them, a message with 3 events, 1 fault | `TypeOK`, `LatestEventTellsTheRow`, `WindowTellsTheRow`, `NewMessageIsShown` |
| `push_recall` | the same, no fault | violated: `RecallReachesTheReader` |
| `hub` | 1 user, 2 nodes, 2 connections, channel of 1, 1 fault | `TypeOK`, `TheNewestIsRegistered`, `OldConnectionsAreClosed`, `RegisteredIsOnline`, `BackOnline`, `GhostsFade`, `ClosedIsTornDown` |
| `hub_stuck` | 1 connection, no fault | violated: `ClosedIsUnregistered` |
| `red_packet` | 3 users, 1 code of 5 fen, 2 packets, 2 handlers, 1 membership change | `TypeOK`, `MoneyIsConserved`, `PacketAddsUp`, `EveryShareIsCovered`, `NormalSharesAreEven` |
| `social` | 3 users, 2 requests, 2 calls at a time, 4 calls in all | `TypeOK`, `FriendshipIsMutual`, `AnswersStand`, `NothingOutlivesTheGroup`, `MemberRowStands` |
| `inbox` | a friend and the bot, 2 rows, pages of 1, 2 requests of the page, 1 goroutine, 1 upset | `UnshownIsCounted`, `OfflineMissesOnlyLateCommits`, `ContextHasTheQuestion`, `SilenceHasACause` |
| `inbox_latest` | the same, 1 request, no upset | violated: `OpeningShowsTheNewest` |
| `inbox_silence` | the bot alone, 1 goroutine, no upset | violated: `FailureIsTold` |
| `gate` | 2 tabs, tokens of 1 s, 1 login per window of 1 s, 1 fault | `GateTypeOK`, `RevokedIsRefused`, `AtMostTwiceTheLimit`, `SessionsEndForACause`, `DeadSessionEnds` |
| `startup` | 2 processes with the AI friend and 1 without, the bot and 2 users, 2 faults | `EveryoneHasTheBot`, `EveryStartSucceeds` |

The types of `Inbox`, `Assistant` and `Startup` are proved (section 5) and not checked
again by a run. `CHECK_DEADLOCK FALSE`: each of these systems rests when its bounded
work is done.

**Why the bounds are enough.** Two dispatchers and two events are what a
double claim, a half-finished batch and a mark that hits another holder's row
need; a lease of one tick expires within a batch of two. What events of
different messages do to each other, and longer leases and backoffs, is left to the
theorems of `OutboxProofs`. Two nodes let a reader
move while an event is in both queues; one fault is a crash, a partial failure or
a lost presence entry. Users of the hub share nothing but the
lock, so one user with an old and a new connection, on one node or two, has all
the interference there is. Two packets of up to three shares with five fen reach
one share left, as many fen as shares and a remainder; two handlers are two
transactions at one row lock. Four calls let an invitation be overtaken by a join
request, its acceptance and a role, and a request be answered twice. Two rows and
pages of one row make every second message "beyond the first page" and let one row
commit before a smaller one; two requests overtake each other. In `inbox`, the page
has one request under way while the bot is answering (`Apart`, a state constraint:
the two share nothing but the rows); the theorems hold without it. Tokens
of one second, in half seconds, have a last second that began and one that did not,
and expire within a behaviour. Two rounds with the model are one that may be followed
and one that may not. Three processes are two in a race and one that does not know the bot; three ids are the bot and two users; two faults let a process
that lost one race be ended by the same index again (`LookRefused`). The index's one message
is edited or recalled while its creation is still on its way. Integer
overflow (`BIGINT` amounts and ids) is out of reach of real values and not
modelled.

**Fairness.** Dispatchers: weak fairness of the steps of
each, because `Run` loops on a
ticker, publishing waits for a confirm or for the end of the channel, and a dead
process is restarted; weak fairness of time. `EventuallyPublished` assumes that
each channel is open for good from some time on, for the code never reopens one.
Search: as for the
dispatchers, and some consumer goes on with the index queue (one whose channel
closes never consumes again, `rabbitmq.go:176`, but the queue is shared and the
processes restart). Push: weak fairness of broker, consumers and browsers. Gate: time
goes on, the presence timer asks and its requests are answered. Start-up: a start goes
on, a process that ended is started again, and strong fairness of `CreateBot`, for an id is drawn out of ninety million. Hub: weak fairness of each
pump's steps and of expiry, strong fairness of `Answer`, because a Go channel serves
a blocked sender before it accepts a newer one. No fairness on users, faults or
new connections.

**Mutants.** Beside the definition it changes, each property has a definition with
a plausible bug (marked `Mutant:`), for which the run must fail: a claim that
ignores leases, a teardown that unregisters whichever client is there, a
grab without the lock, an upsert instead of an insert, a blacklist entry that ends
early, a making that forgets to look, an error that is only logged, and so on.

## 4. Where code and text disagree

1. **The recall of an edited message is pushed as an edit** (`push_recall`,
   `hub.go:347`, `types.go:41`). Readers show it edited and empty until they reload.
2. **A reader can block for ever** (`hub_stuck`, `hub.go:289,294`). Once a full
   channel has closed the connection and `writePump` has ended, `readPump` waits at
   its answer; the dead client is never unregistered. `ClosedIsTornDown` says this
   is the only exception.
3. **Opening a conversation loads its oldest page** (`inbox_latest`,
   `message_repository.go:85`, against the comment at `App.vue:652`). From the
   hundred and first message on, the newest are not shown until the whole
   conversation is listed; the unread count is cleared all the same.
4. **A timeout of the AI friend is silent** (`inbox_silence`, `message_service.go:213`,
   "回显失败原因，避免静默无回复"). The reason is saved with the context that has timed
   out, so neither an answer nor the reason arrives. Other errors of the model, and
   the last of its rounds, are told: `SilenceHasACause`.

Comments and documents that the models contradict without a run of their own:

- The comment at `outbox_repository.go:20` says `Claim` keeps several dispatchers from
  processing one event. The 30 s lease covers a batch of up to 50 publishes, is not
  renewed, and the marks do not check it; a late `MarkFailed` clears the lock of the new
  holder. `ExclusiveUnlessLate` is what does hold.
- The blacklist entry is to live as long as the token is valid (`auth_logout_handler.go:23`),
  and a sign-out to end it at once (`项目功能总结.md:42` and `:115`). The entry ends where the
  last second of the token begins, the parser takes the token until that second is over:
  there a revoked token is good again. `RevokedIsRefused` holds until then.
- `hub.go:253` says 20 messages a minute, `cmd/deliverytest/main.go:15` 20 logins. The
  window is fixed: its end and the beginning of the next let through up to twice as many
  within a minute. `AtMostTwiceTheLimit` is the bound that holds.
- `项目功能总结.md:80` says the hits of a search are read again from MySQL; the
  documents of the index are returned. So hidden and recalled messages are still
  found.
- `项目功能总结.md:141` says a failed push does not stop a red packet; the sender is
  told 500 after he paid (`red_packet_handler.go:91`).
- The comment of `DeleteConversationMessages` (`message_repository.go:146`) says
  outbox rows are removed first; it only hides messages.

Observed while modelling, with no statement to check them against: connections of a
user on another node stay open when he logs in elsewhere, and a teardown there marks
him offline until the next heartbeat (`BackOnline`); a dissolved group deletes what
is left in its packets; two overlapping answers to one request can leave it
"rejected" with the friendship or membership in force (`raced` in `AnswersStand`); a
message already checked is saved after its author was removed or muted; rejoining a
group clears a mute.

- *Inbox.* A message that commits after a greater id is never pulled by a page whose
  cursor has passed. Opening a conversation clears entries its page does not
  show; "select all" that goes on after another conversation was opened takes that
  one's older entries for read; a badge can reappear for what was read, when the
  increment comes after the clearing. Hidden messages are still in offline pulls.
- *AI friend.* A file needs no friendship to be sent, and one to the bot gets no
  answer. An answer of which nothing is left without its asterisks is not saved, and
  a goroutine whose context cannot be read only logs it.
- *Sessions.* A login, a
  sign-out and a login within one second end with the revoked token. A refused answer to a request of an
  earlier session ends the new one. A session whose first requests fail with
  anything but 401 has no presence timer, and the timer asks only for a user with
  friends. Two tabs of one user close each other's socket in turn. A change of the
  password revokes no token.
- *Start-up.* The loser of a race for the bucket, the index or the bot exits and
  must be restarted, as must a process whose look for the index was answered by
  anything but 200 (`indexer.go:45`), also when the index is there. An existing
  account with the bot's name is taken for the bot. A removed bot comes back at the next start, or with the next message to it.
  The retry in `user_repository.Create` never runs: gorm is not told to translate
  duplicate keys. Two processes with one `NODE_ID` share the node queue and split
  its events; `Push` assumes distinct ids.

**What the properties except.** Some invariants except a case that a history variable or
a premise names, because there the code does what the sentence forbids. What remains is
shown for every other behaviour; the exceptions themselves are described above and in
the notes of the hazards.

| Property | Excepted | What the code does there |
|---|---|---|
| `ExclusiveUnlessLate`, `DuplicatesHaveACause` | `late`, `faults` | lets two dispatchers send an event; sends again what it cannot know was sent |
| `WindowTellsTheRow`, `IndexTellsTheRow` | `skewed`, `disordered`: an older event after a newer one | shows, or keeps, the older text |
| `MoneyIsConserved` | `lost` | deletes what is left in the packets of a dissolved group |
| `AnswersStand` | `raced`: overlapping answers | lets both take effect |
| `OfflineMissesOnlyLateCommits` | `overtaken` | never pulls a row that commits late |
| `UnshownIsCounted` | `accounted` | loses the count of a failed increment, clears entries a page does not show |
| `SilenceHasACause` | `upsets`, `blank`, `late` | the fourth disagreement above for `late`; a lost save is logged; nothing is said when the model says nothing |
| `RevokedIsRefused` | the last second | takes the token again |
| `SessionsEndForACause` | answers to an earlier session | ends the new session |
| `EveryoneHasTheBot` | `excused` | leaves a half-finished registration until the next fill |
| `NewMessageIsShown`, `EventuallyPublished` | a closed connection, a wrong presence; a dead channel | the next history load shows it; a restart opens it |

## 5. What is proved

All theorems hold for every value of the constants, from the assumptions named
beside the CONSTANTS (which TLC evaluates in the runs). Each module states its
inductive invariant and shows that the initial states have it and each step keeps
it, with one lemma or step per action.

- **StoreProofs** has the lemmas on the message transactions that the next two share:
  the row is locked from its write to its event's insert, so the largest id of a
  message's events is its last change (`LatestTextTellsTheRow`), and each event tells
  what the ones before it told or more (`EventsInOrder`).
- **OutboxProofs.** `TypeCorrect` needs that a working dispatcher has a batch of
  committed rows (`BatchOK`). `NothingIsLost`: a dispatcher past a confirm works on
  an accepted event, and `MarkPublished` marks only that (`IndInv`).
  `LeaseExcludes`: an event that is held and not late is still leased
  (`LeaseOK`), so no claim takes it, and both marks release only what they mark. `DuplicatesExplained`: an event that
  is accepted and not yet published is late or held by the dispatcher about to mark
  it (`CauseOK`), or something failed; so no claim hands it out without a cause.
  `NewestEventTells`: as above. `OutboxImplementsFeed`:
  every step is a step of `Feed` or a stutter, under `IndInv`.
  `IndexTells`, over `SearchSpec`: what is accepted and not waiting was written
  (`NoneSkipped`), so the last event of a settled message was, and a document that was
  written in order holds the text of the newest event written to it (`Document`).
- **PushProofs.** `TypeCorrect`, `LatestEventTells` and `WindowTells`. The window
  property says nothing of a history answer under way, which replaces the window
  with rows read earlier: the invariant says of every answer which event its rows are
  as new as (`SoundAnswer`, `AnswerOK`), and of a window that it shows what the newest event its
  reader got says (`Follows`, `WindowOK`).
- **HubProofs.** `SuccessorsStay`, `OneOpenPerNode`, `ShownWhileConnected`. The
  conjunction of the three with the types and "a pump that ended has closed its
  connection" (`EndedIsClosed`) is inductive; the pumps' steps share the lemmas
  `MovesKeep` and `MovesKeepOnline`.
- **SumProofs** starts with what a sum over a finite set is: the library defines it by
  taking one element after the other, and the lemmas show by induction on the size
  that the order does not matter (`SumOfOthers`), that one value changes the sum by its difference
  (`SumAfterChange`), and that intervals split and shift (`IntervalSplit`, `IntervalShift`).

  *Red packets.* `NobodyDrawsInVain`: a draw leaves a fen for every other share
  (`DrawIsCovered`), and the row lock keeps the packet as it was drawn from
  (`LockKeepsTheDraw`). `NormalPacketsAreFair`: what remains lies between the normal
  share (total by count) and one fen more, times the shares left (`FairRest`), and a draw by
  `n \div k` keeps it so (`FairDrawLeavesFairRest`). `NoFenIsLost` and `ReceiptsAddUp`
  are inductive with these (`MoneyInv`): a commit moves what was drawn from rows that
  are as they were, and a new packet finds no receipts (`NoEarlyReceipt`).

  *Sessions.* `SignedOutIsRefused` needs to know how long an entry lives:
  `blacklist[k] >= 2 * k - half` for every revoked token (`EntriesLast`).
  `NoSessionIsLost` goes through the steps that clear a page's session.
  `TwiceTheLimitAtMost`: a span as long as a window meets two windows, and each is
  within the limit by itself; the logins of the current one are those since it began, and it
  has counted them (`WindowOK`).
- **SocialProofs.** `FriendsAreMutual`, `AcceptanceStands`, `NothingIsLeft`,
  `MembersKeepTheirRow`. A transaction writes from what its call read before, so the
  invariant says what a call under way may carry: the snapshot of an answer is
  symmetric, and the request it read as pending is so still, or deleted, or known to
  be raced (`CallsOK`).
- **InboxProofs**, over `AssistantSpec`, without the constraint of the run.
  `UnshownStaysCounted`: a row is counted, or will be, or is kept by a request that
  will still show it (`Counted`), and a page after the first one has no gap
  (`NoGap`), so what is cleared through its last id was listed.
  `PullsMissOnlyLateCommits`: the cursor is a committed id, and the first page after it
  has no gap either (`FirstPageHasNoGap`). `QuestionsAreAnswered`: while nothing fails no
  step drops a question. What makes it inductive is that a goroutine which ends
  without an answer either has its two minutes behind it or is at "nothing", and who is
  there was told nothing by the model (`BlankIsKnown`); a step that loses a question on
  any other path, be it an error that is only logged, breaks it. `QuestionInContext`: the n newest
  rows of a set are n rows (`NewestAreAsMany`, by induction), so a context without the
  question is full of newer ones.
- **StartupProofs.** `TheBotIsEveryonesFriend`: names are unique, so all processes
  that know a bot know the same (`NamesAreUnique`, `BotsAreKnown`), and while no bot
  exists nobody has a claim to it (`NoBotYet`). It holds with every race, refused look
  and restart.

**Only model-checked.** All liveness (`EventuallyPublished`, `EventuallySearchable`,
`NewMessageIsShown`, `BackOnline`, `GhostsFade`, `ClosedIsTornDown`,
`DeadSessionEnds`, `EveryStartSucceeds`): fairness and ENABLED are
beyond the prover. Every invariant and every action property of a passing run is stated
by a theorem. What the four violated runs check does not hold (section 4).

## 6. Plan

Done: the message path (`MessageStore`, `Feed`, `Outbox`, `Push`, `SearchIndex`),
`Hub`, `Inbox` with `Assistant`, `Gate`, `RedPacket`, `Social`, `Startup`. What is
left, in this order:

1. In `Push`: private conversations (two readers instead of the members), the typing
   relay, and a hide that races with its push.
2. In `Social`: the limit of members, which `Create` checks and the later joins do
   not.
3. In `SearchIndex`: group conversations.

## 7. Not modelled

- *HTTP request decoding, configuration*: no protocol state. What a handler orders
  (checks, transactions, messages, answers) is part of its component's actions.
- *The load-test tool* (`cmd/deliverytest`): a client, not part of the system.
- *Uploads and presigned URLs* of MinIO: I/O; the message an upload becomes is
  `SaveMedia` in `Inbox`, the bucket is in `Startup`.
- *Password hashes and token signatures*: cryptography.
- *Plain values*: nicknames, avatars, announcements, favourites, read marks (which
  are written and never read).
- *Text*: how a query's words match, what the model and the tools say, formats.

Two hazards have no property: what the sender of a red packet is told when its
message cannot be saved (an answer, not state), and a message hidden while its event
waits in the outbox (`Push` has no hides). Two smaller ones are only named here: the
limit of 200 members is checked when a group is created and not when somebody joins
(`group_service.go:36`), and the membership of a grabber is checked before his
transaction (`red_packet_service.go:60`; `RedPacket` lets it change in between).
