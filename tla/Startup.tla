------------------------------- MODULE Startup -------------------------------
(***************************************************************************)
(* How processes start side by side, and how accounts come to be.  A start *)
(* looks for what it needs (the bucket of MinIO, the index of              *)
(* Elasticsearch, the account of the AI friend) and makes what is missing; *)
(* any error ends the process.  Then it befriends every user with the bot, *)
(* and serves: a registration creates the account and befriends it         *)
(* afterwards.                                                             *)
(*                                                                         *)
(* MySQL runs Create, EnsureFriendship and EnsureFriendshipForAll as one   *)
(* step each: the last locks the users it reads.  Not modelled: friends    *)
(* other than the bot (Social), the mappings of the index, passwords.      *)
(***************************************************************************)
EXTENDS Naturals

CONSTANTS
    Processes,
    WithAI,    \* those whose configuration enables the AI friend
    Ids,       \* the user ids that may be drawn
    NoId,
    Names,     \* usernames
    BotName,   \* the one the configuration gives to the AI friend
    NoName,    \* no row
    MaxFaults  \* bound: calls that fail

ASSUME StartupAssumption ==
    /\ WithAI \subseteq Processes
    /\ NoId \notin Ids
    /\ BotName \in Names
    /\ NoName \notin Names
    /\ MaxFaults \in Nat

VARIABLES
    made,    \* of bucket and index, those that exist
    users,   \* users[i]: the username of row i, or NoName
    friends, \* the friendship rows of the bot: <<user_id, friend_id>>
    stage,   \* stage[p]: what p is at
    bot,     \* bot[p]: the bot's id p has found out, or NoId
    joining, \* joining[p]: the user p has created and not yet befriended, or NoId
    excused, \* history: who has no claim to the bot's friendship since the last fill
    faults

procVars == <<stage, bot, joining>>
vars == <<made, users, friends, procVars, excused, faults>>

Things == {"bucket", "index", "bot"}
\* The stage of a process that has not found t: it is about to make it.
Making == [bucket |-> "MakeBucket", index |-> "IndicesCreate", bot |-> "CreateBot"]
Stages == Things \cup {Making[t] : t \in Things} \cup {"down", "fill", "listen", "up"}

Registered == {i \in Ids : users[i] # NoName}
Bots == {i \in Ids : users[i] = BotName}
Both(i, j) == {<<i, j>>, <<j, i>>}
TheBot == CHOOSE i \in Ids : users[i] = BotName

Init ==
    /\ made = {}
    /\ users = [i \in Ids |-> NoName]
    /\ friends = {}
    /\ stage = [p \in Processes |-> "down"]
    /\ bot = [p \in Processes |-> NoId]
    /\ joining = [p \in Processes |-> NoId]
    /\ excused = {}
    /\ faults = 0

Fault == faults < MaxFaults /\ faults' = faults + 1

-----------------------------------------------------------------------------
(***************************************************************************)
(* A start, call by call.                                                  *)
(***************************************************************************)
Goes(p, s) == stage' = [stage EXCEPT ![p] = s]

\* What follows a thing; only the AI friend's processes look for the bot.
After(p, t) ==
    IF t = "bucket" THEN "index"
    ELSE IF t = "index" THEN IF p \in WithAI THEN "bot" ELSE "listen"
    ELSE "fill"

New(p) ==
    /\ stage[p] = "down"
    /\ Goes(p, "bucket")
    /\ UNCHANGED <<made, users, friends, bot, joining, excused, faults>>

Exists(t) == IF t = "bot" THEN Bots # {} ELSE t \in made

\* Mutant: nobody looks before he makes.
Blindly(p, t) ==
    /\ stage[p] = t
    /\ Goes(p, Making[t])
    /\ UNCHANGED <<made, users, friends, bot, joining, excused, faults>>

\* BucketExists, Indices.Exists, GetByUsername.
Look(p, t) ==
    /\ stage[p] = t
    /\ Goes(p, IF Exists(t) THEN After(p, t) ELSE Making[t])
    /\ bot' = IF t = "bot" /\ Exists(t) THEN [bot EXCEPT ![p] = TheBot] ELSE bot
    /\ UNCHANGED <<made, users, friends, joining, excused, faults>>

\* Elasticsearch answers, but not with 200: the index is taken for missing.
LookRefused(p) ==
    /\ stage[p] = "index"
    /\ Fault
    /\ Goes(p, Making.index)
    /\ UNCHANGED <<made, users, friends, bot, joining, excused>>

\* The call finds what is there, made by another process since the look or taken for missing:
\* New returns the error.
LosesRace(p, t) ==
    /\ stage[p] = Making[t]
    /\ Exists(t)
    /\ Goes(p, "down")
    /\ UNCHANGED <<made, users, friends, bot, joining, excused, faults>>

\* MakeBucket, Indices.Create.
MakeStore(p, t) ==
    /\ t # "bot"
    /\ stage[p] = Making[t] /\ ~Exists(t)
    /\ made' = made \cup {t}
    /\ Goes(p, After(p, t))
    /\ UNCHANGED <<users, friends, bot, joining, excused, faults>>

\* A row with a drawn id.  A duplicate of either key is an error at once: the error of the
\* driver is not the one that the retry waits for.
Create(i, n) ==
    /\ users[i] = NoName
    /\ \A j \in Ids : users[j] # n
    /\ users' = [users EXCEPT ![i] = n]

CreateBot(p) ==
    /\ stage[p] = Making.bot
    /\ \E i \in Ids :
        /\ Create(i, BotName)
        /\ \/ bot' = [bot EXCEPT ![p] = i] /\ Goes(p, "fill") /\ UNCHANGED faults
           \/ Fault /\ Goes(p, "down") /\ UNCHANGED bot \* the row is not read back
    /\ excused' = Registered
    /\ UNCHANGED <<made, friends, joining>>

\* The id that was drawn is somebody's.
IdIsTaken(p) ==
    /\ stage[p] = Making.bot
    /\ Registered # {}
    /\ Goes(p, "down")
    /\ UNCHANGED <<made, users, friends, bot, joining, excused, faults>>

ensureAIBot(p) == CreateBot(p) \/ IdIsTaken(p)

\* Mutant: only the users' side is written.
FillOneSide(p) ==
    /\ stage[p] = "fill"
    /\ friends' = friends \cup {<<i, bot[p]>> : i \in Registered \ {bot[p]}}
    /\ excused' = {}
    /\ Goes(p, "listen")
    /\ UNCHANGED <<made, users, bot, joining, faults>>

EnsureFriendshipForAll(p) ==
    /\ stage[p] = "fill"
    /\ friends' = friends \cup UNION {Both(i, bot[p]) : i \in Registered \ {bot[p]}}
    /\ excused' = {}
    /\ Goes(p, "listen")
    /\ UNCHANGED <<made, users, bot, joining, faults>>

\* Consumers and dispatcher run from here on; the server listens.
Listen(p) ==
    /\ stage[p] = "listen"
    /\ Goes(p, "up")
    /\ UNCHANGED <<made, users, friends, bot, joining, excused, faults>>

\* The process is gone, and with it a registration half way.
Ends(p) ==
    /\ stage' = [stage EXCEPT ![p] = "down"]
    /\ bot' = [bot EXCEPT ![p] = NoId]
    /\ joining' = [joining EXCEPT ![p] = NoId]
    /\ excused' = excused \cup ({joining[p]} \ {NoId})
    /\ UNCHANGED <<made, users, friends>>

\* An error of a call of the start, or of the listener (the port is taken).
StartFails(p) == stage[p] \notin {"down", "up"} /\ Fault /\ Ends(p)

\* A signal, after which calls that are under way are completed; or a crash.
Close(p) ==
    /\ stage[p] = "up"
    /\ \/ joining[p] = NoId /\ UNCHANGED faults
       \/ joining[p] # NoId /\ Fault
    /\ Ends(p)

-----------------------------------------------------------------------------
(***************************************************************************)
(* Users.                                                                  *)
(***************************************************************************)
\* Register, first half.
Register(p, i, n) ==
    /\ stage[p] = "up" /\ joining[p] = NoId
    /\ Create(i, n)
    /\ \/ bot[p] = NoId /\ excused' = excused \cup {i} /\ UNCHANGED <<joining, faults>>
       \/ bot[p] # NoId /\ joining' = [joining EXCEPT ![p] = i] /\ UNCHANGED <<excused, faults>>
       \/ Fault /\ excused' = excused \cup {i} /\ UNCHANGED joining \* the row is not read back
    /\ UNCHANGED <<made, friends, stage, bot>>

EnsureFriendship(p, i) == friends' = friends \cup Both(i, bot[p])

\* Register, second half; an error is only logged.
BotJoins(p) ==
    /\ joining[p] # NoId
    /\ joining' = [joining EXCEPT ![p] = NoId]
    /\ \/ EnsureFriendship(p, joining[p]) /\ UNCHANGED <<excused, faults>>
       \/ Fault /\ excused' = excused \cup {joining[p]} /\ UNCHANGED friends
    /\ UNCHANGED <<made, users, stage, bot>>

\* A message to the bot makes it a friend again.
SaveTextReply(p, i) ==
    /\ stage[p] = "up" /\ bot[p] # NoId
    /\ i \in Registered \ {bot[p]}
    /\ EnsureFriendship(p, i)
    /\ excused' = excused \ {i}
    /\ UNCHANGED <<made, users, procVars, faults>>

RemoveFriend(i) ==
    /\ \E b \in Bots :
        /\ <<i, b>> \in friends
        /\ friends' = friends \ Both(i, b)
    /\ excused' = excused \cup {i}
    /\ UNCHANGED <<made, users, procVars, faults>>

-----------------------------------------------------------------------------
Start(p) ==
    \/ New(p)
    \/ \E t \in Things : Look(p, t) \/ LosesRace(p, t) \/ MakeStore(p, t)
    \/ LookRefused(p)
    \/ ensureAIBot(p) \/ EnsureFriendshipForAll(p) \/ Listen(p) \/ StartFails(p)

Next ==
    \/ \E p \in Processes :
        \/ Start(p) \/ Close(p) \/ BotJoins(p)
        \/ \E i \in Ids : SaveTextReply(p, i) \/ \E n \in Names : Register(p, i, n)
    \/ \E i \in Ids : RemoveFriend(i)

Spec == Init /\ [][Next]_vars

\* A start goes on until it ends or serves, and what has ended is started again.  An id that is
\* drawn again and again, one of ninety million, is free in the end.
FairSpec == Spec /\ \A p \in Processes : WF_vars(Start(p)) /\ SF_vars(CreateBot(p))

-----------------------------------------------------------------------------
TypeOK ==
    /\ made \subseteq {"bucket", "index"}
    /\ users \in [Ids -> Names \cup {NoName}]
    /\ friends \subseteq Registered \X Registered
    /\ stage \in [Processes -> Stages]
    /\ bot \in [Processes -> Ids \cup {NoId}]
    /\ joining \in [Processes -> Registered \cup {NoId}]
    /\ excused \subseteq Registered
    /\ faults \in 0..MaxFaults

(***************************************************************************)
(* However many processes start at once, they find out the same bot, and   *)
(* every user has it as a friend, and it him, once his registration is     *)
(* over; unless the bot's account is new, he removed it, or he was         *)
(* registered, since the last fill, by a process that knows no bot or      *)
(* could not finish.                                                       *)
(***************************************************************************)
OneBot == \A p, q \in Processes : bot[p] = NoId \/ bot[q] = NoId \/ bot[p] = bot[q]

EveryoneHasTheBot ==
    /\ OneBot
    /\ \A b \in Bots : \A i \in Registered \ {b} :
        \/ Both(i, b) \subseteq friends
        \/ i \in excused
        \/ \E p \in Processes : joining[p] = i

(***************************************************************************)
(* Processes that start at once end each other: whoever makes a thing last *)
(* is ended by it, as is who took it for missing.  Started again, every    *)
(* one of them serves in the end, however the starts, their ends and the   *)
(* registrations overlap: no thing is ever made half, and none stands in   *)
(* the way of those that come later.                                       *)
(***************************************************************************)
EveryStartSucceeds == \A p \in Processes : []<>(stage[p] = "up")
=============================================================================
