--------------------------- MODULE StartupProofs ---------------------------
(***************************************************************************)
(* Theorems of the start, for any processes, users and names: everyone has *)
(* the one bot.                                                            *)
(***************************************************************************)
EXTENDS Startup, TLAPS

-----------------------------------------------------------------------------
(***************************************************************************)
(* The inductive invariant.  The names are unique, which the code leaves   *)
(* to the key of the table; so all who have found out the bot have found   *)
(* the same.  An account that takes the bot's name before any process made *)
(* the bot is the bot from then on, and nobody has a claim to it yet.      *)
(***************************************************************************)
NamesAreUnique == \A i, j \in Registered : users[i] = users[j] => i = j

BotsAreKnown ==
    \A p \in Processes :
        /\ bot[p] # NoId => bot[p] \in Bots
        /\ stage[p] = "fill" \/ joining[p] # NoId => bot[p] # NoId

NoBotYet == Bots = {} => Registered \subseteq excused

HasTheBot(i, b) ==
    \/ Both(i, b) \subseteq friends
    \/ i \in excused
    \/ \E p \in Processes : joining[p] = i

Befriended == \A b \in Bots : \A i \in Registered \ {b} : HasTheBot(i, b)

IndInv == TypeOK /\ NamesAreUnique /\ BotsAreKnown /\ NoBotYet /\ Befriended

LEMMA BotsAreRegistered == Bots \subseteq Registered /\ Registered \subseteq Ids
BY StartupAssumption DEF Bots, Registered

LEMMA OneBotOnly == ASSUME NamesAreUnique, NEW b \in Bots, NEW c \in Bots PROVE b = c
BY BotsAreRegistered DEF NamesAreUnique, Bots

LEMMA MakingIsAStage ==
    /\ \A t \in Things : /\ Making[t] \in Stages
                          /\ Making[t] \notin Things \cup {"down", "fill", "listen", "up"}
    /\ \A t, u \in Things : Making[t] = Making[u] => t = u
    /\ Things \cup {"down", "fill", "listen", "up"} \subseteq Stages
BY DEF Making, Things, Stages

LEMMA IndInvInit == Init => IndInv
<1> SUFFICES ASSUME Init PROVE IndInv
  OBVIOUS
<1>1. Registered = {} /\ Bots = {}
  BY StartupAssumption DEF Init, Registered, Bots
<1>2. TypeOK
  <2>1. stage \in [Processes -> Stages]
    BY MakingIsAStage DEF Init
  <2>2. QED BY <1>1, <2>1, StartupAssumption DEF Init, TypeOK
<1>3. NamesAreUnique /\ NoBotYet /\ Befriended
  BY <1>1 DEF NamesAreUnique, NoBotYet, Befriended, HasTheBot
<1>4. BotsAreKnown
  BY DEF Init, BotsAreKnown
<1>5. QED BY <1>2, <1>3, <1>4 DEF IndInv

LEMMA FaultKeeps == ASSUME TypeOK, Fault \/ UNCHANGED faults PROVE faults' \in 0..MaxFaults
BY StartupAssumption DEF TypeOK, Fault

-----------------------------------------------------------------------------
(***************************************************************************)
(* Accounts.                                                               *)
(***************************************************************************)

\* A row is added under a name nobody has.
LEMMA CreateAddsOne ==
    ASSUME IndInv, NEW i \in Ids, NEW n \in Names, Create(i, n)
    PROVE  /\ users' \in [Ids -> Names \cup {NoName}]
           /\ Registered' = Registered \cup {i} /\ i \notin Registered
           /\ Bots' = IF n = BotName THEN {i} ELSE Bots
           /\ n = BotName => Bots = {}
           /\ NamesAreUnique'
<1>1. /\ \A j \in Ids : users'[j] = IF j = i THEN n ELSE users[j]
      /\ users[i] = NoName /\ n # NoName /\ \A j \in Ids : users[j] # n
      /\ users' \in [Ids -> Names \cup {NoName}]
  BY StartupAssumption DEF IndInv, TypeOK, Create
<1>2. Registered' = Registered \cup {i} /\ i \notin Registered
  BY <1>1 DEF Registered
<1>3. Bots' = IF n = BotName THEN {i} ELSE Bots
  BY <1>1, StartupAssumption DEF Bots
<1>4. n = BotName => Bots = {}
  BY <1>1 DEF Bots
<1>5. NamesAreUnique'
  BY <1>1, <1>2, BotsAreRegistered DEF IndInv, NamesAreUnique
<1>6. QED BY <1>1, <1>2, <1>3, <1>4, <1>5

LEMMA RowsStay ==
    ASSUME UNCHANGED users
    PROVE  Registered' = Registered /\ Bots' = Bots
BY DEF Registered, Bots

\* A process goes from one stage to another and nothing is made or befriended.
LEMMA StageKeeps ==
    ASSUME IndInv, NEW p \in Processes, NEW s \in Stages, Goes(p, s),
           NEW b \in Bots \cup {NoId}, bot' = [bot EXCEPT ![p] = b], b = bot[p] \/ bot[p] = NoId,
           s = "fill" => b # NoId, made' \subseteq {"bucket", "index"},
           Fault \/ UNCHANGED faults, UNCHANGED <<users, friends, joining, excused>>
    PROVE  IndInv'
<1>1. Registered' = Registered /\ Bots' = Bots
  BY RowsStay
<1>2. /\ \A q \in Processes : stage'[q] = IF q = p THEN s ELSE stage[q]
      /\ \A q \in Processes : bot'[q] = IF q = p THEN b ELSE bot[q]
      /\ stage' \in [Processes -> Stages] /\ bot' \in [Processes -> Ids \cup {NoId}]
  BY BotsAreRegistered DEF IndInv, TypeOK, Goes
<1>3. TypeOK'
  <2>1. faults' \in 0..MaxFaults
    BY FaultKeeps DEF IndInv
  <2>2. QED BY <1>1, <1>2, <2>1 DEF IndInv, TypeOK
<1>4. NamesAreUnique' /\ NoBotYet' /\ Befriended'
  BY <1>1 DEF IndInv, NamesAreUnique, NoBotYet, Befriended, HasTheBot, Both
<1>5. BotsAreKnown'
  BY <1>1, <1>2 DEF IndInv, BotsAreKnown
<1>6. QED BY <1>3, <1>4, <1>5 DEF IndInv

LEMMA TheBotIsABot == ASSUME Bots # {} PROVE TheBot \in Bots
BY DEF TheBot, Bots

LEMMA AfterIsAStage ==
    ASSUME NEW p \in Processes, NEW t \in Things
    PROVE  After(p, t) \in Stages /\ (After(p, t) = "fill" => t = "bot")
BY DEF After, Stages, Things, Making

LEMMA LooksKeep ==
    ASSUME IndInv, NEW p \in Processes,
           \/ New(p) \/ Listen(p) \/ LookRefused(p) \/ IdIsTaken(p)
           \/ \E t \in Things : Look(p, t) \/ LosesRace(p, t) \/ MakeStore(p, t)
    PROVE  IndInv'
<1>1. bot[p] \in Bots \cup {NoId} /\ bot = [bot EXCEPT ![p] = bot[p]]
      /\ made \subseteq {"bucket", "index"}
  BY DEF IndInv, BotsAreKnown, TypeOK
<1>2. ASSUME NEW s \in Stages \ {"fill"}, Goes(p, s), made' \subseteq {"bucket", "index"},
             Fault \/ UNCHANGED faults, UNCHANGED <<users, friends, bot, joining, excused>>
      PROVE  IndInv'
  BY <1>1, <1>2, StageKeeps
<1>3. {"bucket", "down", "up", Making.index} \subseteq Stages \ {"fill"}
  BY DEF Stages, Things, Making
<1>4. CASE New(p) \/ Listen(p) \/ LookRefused(p) \/ IdIsTaken(p)
  BY <1>1, <1>2, <1>3, <1>4 DEF New, Listen, LookRefused, IdIsTaken
<1>5. ASSUME NEW t \in Things, Look(p, t) PROVE IndInv'
  <2> DEFINE s == IF Exists(t) THEN After(p, t) ELSE Making[t]
             b == IF t = "bot" /\ Exists(t) THEN TheBot ELSE bot[p]
  <2>1. Goes(p, s) /\ bot' = [bot EXCEPT ![p] = b]
        /\ UNCHANGED <<made, users, friends, joining, excused, faults>>
    BY <1>1, <1>5 DEF Look
  <2>2. s \in Stages
    BY AfterIsAStage, MakingIsAStage
  <2>3. b \in Bots \cup {NoId} /\ (b = bot[p] \/ bot[p] = NoId)
    <3>1. t = "bot" /\ Exists(t) => TheBot \in Bots
      BY TheBotIsABot DEF Exists
    <3>2. QED BY <1>1, <3>1, OneBotOnly DEF IndInv
  <2>4. s = "fill" => b # NoId
    <3>1. Making[t] # "fill"
      BY MakingIsAStage
    <3>2. s = "fill" => t = "bot" /\ Exists(t)
      BY <3>1, AfterIsAStage
    <3>3. QED
      BY <3>2, TheBotIsABot, BotsAreRegistered, StartupAssumption DEF Exists
  <2> HIDE DEF s, b
  <2>5. QED BY <1>1, <2>1, <2>2, <2>3, <2>4, StageKeeps
<1>6. ASSUME NEW t \in Things, LosesRace(p, t) PROVE IndInv'
  BY <1>1, <1>2, <1>3, <1>6 DEF LosesRace
<1>7. ASSUME NEW t \in Things, MakeStore(p, t) PROVE IndInv'
  <2>1. t \in {"bucket", "index"} /\ After(p, t) \in Stages \ {"fill"}
    BY <1>7, AfterIsAStage DEF MakeStore, Things
  <2>2. QED BY <1>1, <1>2, <1>7, <2>1 DEF MakeStore
<1>8. QED BY <1>4, <1>5, <1>6, <1>7

\* The bot's account is new: nobody has a claim to its friendship.
LEMMA CreateBotKeeps ==
    ASSUME IndInv, NEW p \in Processes, CreateBot(p) PROVE IndInv'
<1> USE BotsAreRegistered
<1>1. PICK i \in Ids :
        /\ Create(i, BotName)
        /\ \/ bot' = [bot EXCEPT ![p] = i] /\ Goes(p, "fill") /\ UNCHANGED faults
           \/ Fault /\ Goes(p, "down") /\ UNCHANGED bot
  BY DEF CreateBot
<1>2. excused' = Registered /\ UNCHANGED <<made, friends, joining>>
  BY DEF CreateBot
<1>3. /\ users' \in [Ids -> Names \cup {NoName}]
      /\ Registered' = Registered \cup {i}
      /\ Bots' = {i} /\ Bots = {} /\ NamesAreUnique'
  BY <1>1, CreateAddsOne, StartupAssumption
<1>4. PICK s \in {"fill", "down"} : stage' = [stage EXCEPT ![p] = s]
  BY <1>1 DEF Goes
<1>5. \A q \in Processes : bot[q] = NoId /\ joining[q] = NoId /\ stage[q] # "fill"
  BY <1>3 DEF IndInv, BotsAreKnown
<1>6. /\ bot' \in [Processes -> Ids \cup {NoId}]
      /\ \A q \in Processes : bot'[q] # NoId => bot'[q] = i
      /\ \A q \in Processes : stage'[q] = "fill" => q = p /\ bot'[q] = i
  BY <1>1, <1>4, <1>5 DEF IndInv, TypeOK, Goes
<1>7. TypeOK'
  <2>1. stage' \in [Processes -> Stages]
    BY <1>4, MakingIsAStage DEF IndInv, TypeOK
  <2>2. faults' \in 0..MaxFaults
    BY <1>1, FaultKeeps DEF IndInv
  <2>3. QED BY <1>2, <1>3, <1>6, <2>1, <2>2 DEF IndInv, TypeOK
<1>8. NoBotYet' /\ Befriended'
  BY <1>2, <1>3 DEF NoBotYet, Befriended, HasTheBot
<1>9. BotsAreKnown'
  BY <1>2, <1>3, <1>5, <1>6, StartupAssumption DEF BotsAreKnown
<1>10. QED BY <1>3, <1>7, <1>8, <1>9 DEF IndInv

\* The rows of the bot are those of every user.
LEMMA FillKeeps ==
    ASSUME IndInv, NEW p \in Processes, EnsureFriendshipForAll(p) PROVE IndInv'
<1>1. /\ stage[p] = "fill" /\ bot[p] \in Bots /\ bot[p] # NoId
      /\ friends' = friends \cup UNION {Both(i, bot[p]) : i \in Registered \ {bot[p]}}
      /\ excused' = {} /\ stage' = [stage EXCEPT ![p] = "listen"]
      /\ UNCHANGED <<made, users, bot, joining, faults>>
  BY DEF EnsureFriendshipForAll, Goes, IndInv, BotsAreKnown
<1>2. Registered' = Registered /\ Bots' = Bots
  BY <1>1, RowsStay
<1>3. \A b \in Bots : b = bot[p]
  BY <1>1, OneBotOnly DEF IndInv
<1>4. TypeOK'
  <2>1. stage' \in [Processes -> Stages]
    BY <1>1, MakingIsAStage DEF IndInv, TypeOK
  <2>2. friends' \subseteq Registered \X Registered
    BY <1>1, BotsAreRegistered DEF Both, IndInv, TypeOK
  <2>3. QED BY <1>1, <1>2, <2>1, <2>2 DEF IndInv, TypeOK
<1>5. NamesAreUnique' /\ NoBotYet' /\ Befriended'
  BY <1>1, <1>2, <1>3 DEF IndInv, NamesAreUnique, NoBotYet, Befriended, HasTheBot, Both
<1>6. BotsAreKnown'
  BY <1>1, <1>2 DEF IndInv, TypeOK, BotsAreKnown
<1>7. QED BY <1>4, <1>5, <1>6 DEF IndInv

\* The end of a process excuses the user it was befriending.
LEMMA EndsKeep ==
    ASSUME IndInv, NEW p \in Processes, Ends(p), Fault \/ UNCHANGED faults PROVE IndInv'
<1>1. /\ stage' = [stage EXCEPT ![p] = "down"]
      /\ bot' = [bot EXCEPT ![p] = NoId]
      /\ joining' = [joining EXCEPT ![p] = NoId]
      /\ excused' = excused \cup ({joining[p]} \ {NoId})
      /\ UNCHANGED <<made, users, friends>>
  BY DEF Ends
<1>2. Registered' = Registered /\ Bots' = Bots
  BY <1>1, RowsStay
<1>3. TypeOK'
  <2>1. stage' \in [Processes -> Stages]
    BY <1>1, MakingIsAStage DEF IndInv, TypeOK
  <2>2. faults' \in 0..MaxFaults
    BY FaultKeeps DEF IndInv
  <2>3. /\ bot' \in [Processes -> Ids \cup {NoId}]
        /\ joining' \in [Processes -> Registered \cup {NoId}]
        /\ excused' \subseteq Registered
    BY <1>1 DEF IndInv, TypeOK
  <2>4. QED BY <1>1, <1>2, <2>1, <2>2, <2>3 DEF IndInv, TypeOK
<1>4. NamesAreUnique' /\ NoBotYet'
  BY <1>1, <1>2 DEF IndInv, NamesAreUnique, NoBotYet
<1>5. Befriended'
  <2>1. \A i \in Registered : i # NoId
    BY StartupAssumption, BotsAreRegistered
  <2>2. ASSUME NEW i \in Registered, NEW q \in Processes, joining[q] = i
        PROVE  i \in excused' \/ joining'[q] = i
    BY <1>1, <2>1, <2>2 DEF IndInv, TypeOK
  <2>3. QED BY <1>1, <1>2, <2>2 DEF IndInv, Befriended, HasTheBot, Both
<1>6. BotsAreKnown'
  BY <1>1, <1>2 DEF IndInv, TypeOK, BotsAreKnown
<1>7. QED BY <1>3, <1>4, <1>5, <1>6 DEF IndInv

\* A user is registered: before there is a bot he has no claim to it, and may be it.
LEMMA RegisterKeeps ==
    ASSUME IndInv, NEW p \in Processes, NEW i \in Ids, NEW n \in Names, Register(p, i, n)
    PROVE  IndInv'
<1> USE BotsAreRegistered
<1>1. /\ users' \in [Ids -> Names \cup {NoName}]
      /\ Registered' = Registered \cup {i} /\ i \notin Registered
      /\ Bots' = IF n = BotName THEN {i} ELSE Bots
      /\ n = BotName => Bots = {}
      /\ NamesAreUnique'
  BY CreateAddsOne DEF Register
<1>2. /\ joining[p] = NoId /\ UNCHANGED <<made, friends, stage, bot>>
      /\ \/ excused' = excused \cup {i} /\ UNCHANGED joining
         \/ bot[p] # NoId /\ joining' = [joining EXCEPT ![p] = i] /\ UNCHANGED excused
      /\ Fault \/ UNCHANGED faults
  BY DEF Register
<1>3. \A q \in Processes : joining'[q] = joining[q] \/ (q = p /\ joining'[q] = i /\ bot[p] # NoId)
  BY <1>2 DEF IndInv, TypeOK
<1>4. TypeOK'
  <2>1. faults' \in 0..MaxFaults
    BY <1>2, FaultKeeps DEF IndInv
  <2>2. joining' \in [Processes -> Registered' \cup {NoId}] /\ excused' \subseteq Registered'
        /\ friends' \subseteq Registered' \X Registered'
    BY <1>1, <1>2 DEF IndInv, TypeOK
  <2>3. QED BY <1>1, <1>2, <2>1, <2>2 DEF IndInv, TypeOK
<1>5. NoBotYet'
  BY <1>1, <1>2 DEF IndInv, NoBotYet, BotsAreKnown
<1>6. Befriended'
  <2>1. i \in excused' \/ joining'[p] = i
    BY <1>2 DEF IndInv, TypeOK
  <2>2. excused \subseteq excused' /\ UNCHANGED friends
    BY <1>2
  <2>3. \A q \in Processes : joining[q] # NoId => joining'[q] = joining[q]
    BY <1>2 DEF IndInv, TypeOK
  <2>4. \A k \in Registered : k # NoId
    BY StartupAssumption
  <2>5. CASE n = BotName
    BY <1>1, <2>1, <2>2, <2>5 DEF IndInv, NoBotYet, Befriended, HasTheBot
  <2>6. CASE n # BotName
    <3> SUFFICES ASSUME NEW b \in Bots, NEW k \in Registered' \ {b} PROVE HasTheBot(k, b)'
      BY <1>1, <2>6 DEF Befriended, HasTheBot
    <3>1. CASE k = i
      BY <2>1, <3>1 DEF HasTheBot
    <3>2. CASE k # i
      <4>1. k \in Registered /\ HasTheBot(k, b)
        BY <1>1, <3>2 DEF IndInv, Befriended, HasTheBot
      <4>2. QED BY <2>2, <2>3, <2>4, <4>1 DEF HasTheBot
    <3>3. QED BY <3>1, <3>2
  <2>7. QED BY <2>5, <2>6
<1>7. BotsAreKnown'
  BY <1>1, <1>2, <1>3 DEF IndInv, BotsAreKnown
<1>8. QED BY <1>1, <1>4, <1>5, <1>6, <1>7 DEF IndInv

\* What only befriends: no account and no stage is touched.
LEMMA OnlyFriends ==
    ASSUME IndInv, UNCHANGED <<made, users, stage, bot>>
    PROVE  /\ Registered' = Registered /\ Bots' = Bots
           /\ NamesAreUnique'
           /\ (\A p \in Processes : joining'[p] # NoId => joining[p] # NoId) => BotsAreKnown'
<1>1. Registered' = Registered /\ Bots' = Bots
  BY RowsStay
<1>2. NamesAreUnique'
  BY <1>1 DEF IndInv, NamesAreUnique
<1>3. ASSUME \A p \in Processes : joining'[p] # NoId => joining[p] # NoId PROVE BotsAreKnown'
  BY <1>1, <1>3 DEF IndInv, BotsAreKnown
<1>4. QED BY <1>1, <1>2, <1>3

LEMMA BotJoinsKeeps ==
    ASSUME IndInv, NEW p \in Processes, BotJoins(p) PROVE IndInv'
<1> DEFINE i == joining[p]
<1>1. /\ i # NoId /\ joining' = [joining EXCEPT ![p] = NoId]
      /\ UNCHANGED <<made, users, stage, bot>>
      /\ \/ friends' = friends \cup Both(i, bot[p]) /\ UNCHANGED excused
         \/ excused' = excused \cup {i} /\ UNCHANGED friends
      /\ Fault \/ UNCHANGED faults
  BY DEF BotJoins, EnsureFriendship
<1>2. i \in Registered /\ bot[p] \in Bots /\ bot[p] \in Registered
  BY <1>1, BotsAreRegistered DEF IndInv, TypeOK, BotsAreKnown
<1>3. \A q \in Processes : joining'[q] = IF q = p THEN NoId ELSE joining[q]
  BY <1>1 DEF IndInv, TypeOK
<1>4. Registered' = Registered /\ Bots' = Bots /\ NamesAreUnique' /\ BotsAreKnown'
  BY <1>1, <1>3, OnlyFriends
<1>5. TypeOK'
  <2>1. faults' \in 0..MaxFaults
    BY <1>1, FaultKeeps DEF IndInv
  <2>2. friends' \subseteq Registered \X Registered /\ excused' \subseteq Registered
        /\ joining' \in [Processes -> Registered \cup {NoId}]
    BY <1>1, <1>2 DEF IndInv, TypeOK, Both
  <2>3. QED BY <1>1, <1>4, <2>1, <2>2 DEF IndInv, TypeOK
<1>6. NoBotYet'
  BY <1>1, <1>4 DEF IndInv, NoBotYet
<1>7. Befriended'
  <2>1. \A b \in Bots : b = bot[p]
    BY <1>2, OneBotOnly DEF IndInv
  <2> HIDE DEF i
  <2>2. \A b \in Bots : Both(i, b) \subseteq friends' \/ i \in excused'
    BY <1>1, <2>1
  <2>3. friends \subseteq friends' /\ excused \subseteq excused'
    BY <1>1
  <2>4. \A q \in Processes, k \in Registered : joining[q] = k => joining'[q] = k \/ k = i
    BY <1>3 DEF i
  <2> SUFFICES ASSUME NEW b \in Bots, NEW k \in Registered \ {b} PROVE HasTheBot(k, b)'
    BY <1>4 DEF Befriended, HasTheBot
  <2>5. CASE k = i
    BY <2>2, <2>5 DEF HasTheBot
  <2>6. CASE k # i
    BY <2>3, <2>4, <2>6 DEF IndInv, Befriended, HasTheBot
  <2>7. QED BY <2>5, <2>6
<1>8. QED BY <1>4, <1>5, <1>6, <1>7 DEF IndInv

LEMMA SaveTextReplyKeeps ==
    ASSUME IndInv, NEW p \in Processes, NEW i \in Ids, SaveTextReply(p, i) PROVE IndInv'
<1>1. /\ bot[p] \in Bots /\ bot[p] \in Registered /\ i \in Registered
      /\ friends' = friends \cup Both(i, bot[p]) /\ excused' = excused \ {i}
      /\ UNCHANGED <<made, users, stage, bot, joining, faults>>
  BY BotsAreRegistered DEF SaveTextReply, EnsureFriendship, procVars, IndInv, BotsAreKnown
<1>2. Registered' = Registered /\ Bots' = Bots /\ NamesAreUnique' /\ BotsAreKnown'
  BY <1>1, OnlyFriends
<1>3. TypeOK'
  BY <1>1, <1>2 DEF IndInv, TypeOK, Both
<1>4. NoBotYet'
  BY <1>1, <1>2 DEF NoBotYet
<1>5. Befriended'
  <2>1. \A b \in Bots : b = bot[p]
    BY <1>1, OneBotOnly DEF IndInv
  <2> SUFFICES ASSUME NEW b \in Bots, NEW k \in Registered \ {b} PROVE HasTheBot(k, b)'
    BY <1>2 DEF Befriended, HasTheBot
  <2>2. CASE k = i
    BY <1>1, <2>1, <2>2 DEF HasTheBot
  <2>3. CASE k # i
    BY <1>1, <2>3 DEF IndInv, Befriended, HasTheBot
  <2>4. QED BY <2>2, <2>3
<1>6. QED BY <1>2, <1>3, <1>4, <1>5 DEF IndInv

LEMMA RemoveFriendKeeps == ASSUME IndInv, NEW i \in Ids, RemoveFriend(i) PROVE IndInv'
<1>1. PICK b \in Bots : <<i, b>> \in friends /\ friends' = friends \ Both(i, b)
  BY DEF RemoveFriend
<1>2. /\ i \in Registered /\ excused' = excused \cup {i}
      /\ UNCHANGED <<made, users, stage, bot, joining, faults>>
  BY <1>1 DEF RemoveFriend, procVars, IndInv, TypeOK
<1>3. Registered' = Registered /\ Bots' = Bots /\ NamesAreUnique' /\ BotsAreKnown'
  BY <1>2, OnlyFriends
<1>4. TypeOK'
  BY <1>1, <1>2, <1>3 DEF IndInv, TypeOK
<1>5. NoBotYet'
  BY <1>2, <1>3 DEF IndInv, NoBotYet
<1>6. Befriended'
  <2> SUFFICES ASSUME NEW k \in Registered \ {b} PROVE HasTheBot(k, b)'
    BY <1>3, OneBotOnly DEF IndInv, Befriended, HasTheBot
  <2>1. CASE k = i
    BY <1>2, <2>1 DEF HasTheBot
  <2>2. CASE k # i
    <3>1. Both(k, b) \cap Both(i, b) = {}
      BY <2>2 DEF Both
    <3>2. QED BY <1>1, <1>2, <3>1 DEF IndInv, Befriended, HasTheBot
  <2>3. QED BY <2>1, <2>2
<1>7. QED BY <1>3, <1>4, <1>5, <1>6 DEF IndInv

-----------------------------------------------------------------------------
LEMMA IndInvNext == IndInv /\ [Next]_vars => IndInv'
<1> SUFFICES ASSUME IndInv, [Next]_vars PROVE IndInv'
  OBVIOUS
<1>1. ASSUME NEW p \in Processes, Start(p) PROVE IndInv'
  <2>1. CASE StartFails(p)
    BY <2>1, EndsKeep DEF StartFails
  <2>2. QED
    BY <1>1, <2>1, LooksKeep, CreateBotKeeps, FillKeeps DEF Start, ensureAIBot
<1>2. ASSUME NEW p \in Processes, Close(p) PROVE IndInv'
  BY <1>2, EndsKeep DEF Close
<1>3. CASE UNCHANGED vars
  <2>1. UNCHANGED <<made, users, friends, stage, bot, joining, excused, faults>>
    BY <1>3 DEF vars, procVars
  <2>2. Registered' = Registered /\ Bots' = Bots /\ NamesAreUnique' /\ BotsAreKnown'
    BY <2>1, OnlyFriends
  <2>3. QED
    BY <2>1, <2>2 DEF IndInv, TypeOK, NoBotYet, Befriended, HasTheBot, Both
<1>4. QED
  BY <1>1, <1>2, <1>3, BotJoinsKeeps, SaveTextReplyKeeps, RegisterKeeps, RemoveFriendKeeps
  DEF Next

LEMMA Invariance == Spec => []IndInv
<1>1. QED BY IndInvInit, IndInvNext, PTL DEF Spec

\* Accounts, friendships and processes have the types the schema and the code give them.
THEOREM StartupTypeCorrect == Spec => []TypeOK
<1>1. IndInv => TypeOK
  BY DEF IndInv
<1>2. QED BY <1>1, Invariance, PTL

\* All processes know one bot, and every user has it as a friend, but for the known exceptions.
THEOREM TheBotIsEveryonesFriend == Spec => []EveryoneHasTheBot
<1>1. IndInv => EveryoneHasTheBot
  <2>1. IndInv => OneBot
    BY OneBotOnly DEF IndInv, BotsAreKnown, OneBot
  <2>2. QED BY <2>1 DEF IndInv, Befriended, HasTheBot, EveryoneHasTheBot
<1>2. QED BY <1>1, Invariance, PTL
=============================================================================
