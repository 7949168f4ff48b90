------------------------------ MODULE Assistant ------------------------------
(***************************************************************************)
(* The AI friend: each of my messages to the bot starts a goroutine that   *)
(* reads the latest messages of the conversation, asks the model, runs the *)
(* tools it calls and asks again, and saves the answer as a message of the *)
(* bot's, which is counted, listed and pulled as any other (Inbox).        *)
(*                                                                         *)
(* A goroutine has two minutes for all of it; how long a call takes is     *)
(* left open, so its time may be over at any moment, and then every call   *)
(* with its context fails.  Not modelled: what the model and the tools     *)
(* say, and the tools' own requests: whatever fails in them is told to the *)
(* model.                                                                  *)
(***************************************************************************)
EXTENDS Inbox

CONSTANTS
    Bot,         \* the AI friend
    ContextSize, \* the messages the model is given
    MaxRounds,   \* the limit of the rounds of tool calls
    Goroutines   \* bound: those that answer at a time

ASSUME AssistantAssumption ==
    /\ Bot \in Peers
    /\ ContextSize \in Nat \ {0}
    /\ MaxRounds \in Nat \ {0}

VARIABLES
    waiting,  \* my messages to the bot whose goroutine has not begun
    chat,     \* chat[g]: what goroutine g is at, or Idle
    answered, \* history: the questions whose goroutine saved an answer
    blank,    \* history: those to which the model said nothing
    late      \* those whose goroutine has had its two minutes

chatVars == <<waiting, chat, answered, blank, late>>
assistantVars == <<vars, chatVars>>

\* asking: the model; tools: running what it calls; replying: with an answer that is to be
\* saved; telling: with the reason why there is none; nothing: with a text of which nothing is
\* left without its marks.
Idle == [stage |-> "idle"]
Chat == [stage    : {"asking", "tools", "replying", "telling", "nothing"},
         question : Ids,
         context  : SUBSET Ids,
         round    : 0..MaxRounds - 1]

Answering == {g \in Goroutines : chat[g] # Idle}

expired(g) == chat[g].question \in late

AssistantInit ==
    /\ Init
    /\ waiting = {}
    /\ chat = [g \in Goroutines |-> Idle]
    /\ answered = {} /\ blank = {} /\ late = {}

Goes(g, stage) == chat' = [chat EXCEPT ![g].stage = stage]
Ends(g) == chat' = [chat EXCEPT ![g] = Idle]

-----------------------------------------------------------------------------
\* My message to the bot; the goroutine starts after it was counted for the bot.
AskBot(i) ==
    /\ SendMessage(i, Bot)
    /\ waiting' = waiting \cup {i}
    /\ UNCHANGED <<chat, answered, blank, late>>

\* Mutant: the first page is taken, as for the conversation.
OldestConversation ==
    LET rows == With(Bot) \ hidden
    IN  {i \in rows : Cardinality({j \in rows : j < i}) < ContextSize}

\* The latest messages, but what I deleted.
ListRecentConversation ==
    LET rows == With(Bot) \ hidden
    IN  {i \in rows : Cardinality({j \in rows : j > i}) < ContextSize}

\* The goroutine reads its context.  A question what it is able to do is answered at once.
ReadContext(g, q) ==
    /\ chat[g] = Idle
    /\ waiting' = waiting \ {q}
    /\ \/ /\ \E stage \in {"asking", "replying"} :
                chat' = [chat EXCEPT ![g] = [stage |-> stage, question |-> q, round |-> 0,
                                             context |-> ListRecentConversation]]
          /\ UNCHANGED upsets
       \/ Upset /\ UNCHANGED chat
    /\ UNCHANGED <<rowVars, unread, hidden, pageVars, offlineVars, accounted>>
    /\ UNCHANGED <<answered, blank, late>>

\* Mutant: an error is logged and nothing said.
ErrorIsLogged(g) == Ends(g)

\* The reason is told as the bot's answer.
ErrorIsTold(g) == Goes(g, "telling")

\* What comes of a request to the model.
completeMessage(g) == IF expired(g) THEN {"error"} ELSE {"error", "text", "nothing", "tools"}

\* A round with the model.
generateAIReply(g) ==
    /\ g \in Answering /\ chat[g].stage = "asking"
    /\ \E outcome \in completeMessage(g) :
        /\ \/ outcome = "text" /\ Goes(g, "replying")
           \/ outcome \in {"nothing", "tools"} /\ Goes(g, outcome)
           \/ outcome = "error" /\ ErrorIsTold(g)
        /\ blank' = IF outcome = "nothing" THEN blank \cup {chat[g].question} ELSE blank
    /\ UNCHANGED <<waiting, answered, late, vars>>

\* What the tools return, or their errors, goes into the next round, up to the limit.
ExecTools(g) ==
    /\ g \in Answering /\ chat[g].stage = "tools"
    /\ \/ /\ chat[g].round + 1 < MaxRounds
          /\ chat' = [chat EXCEPT ![g].stage = "asking", ![g].round = @ + 1]
       \/ chat[g].round + 1 >= MaxRounds /\ ErrorIsTold(g)
    /\ UNCHANGED <<waiting, answered, blank, late, vars>>

\* Nothing is saved when the model said nothing.
SayNothing(g) ==
    /\ g \in Answering /\ chat[g].stage = "nothing"
    /\ Ends(g)
    /\ UNCHANGED <<waiting, answered, blank, late, vars>>

\* The deadline, at any moment.
Expire(g) ==
    /\ g \in Answering /\ ~expired(g)
    /\ late' = late \cup {chat[g].question}
    /\ UNCHANGED <<waiting, chat, answered, blank, vars>>

\* The answer is saved with the context of the goroutine and then counted.
SaveReply(g, i) ==
    /\ ~expired(g)
    /\ SaveAndEnqueue(i, Bot, FALSE)
    /\ owed' = owed \cup {i}
    /\ answered' = answered \cup {chat[g].question}
    /\ UNCHANGED upsets

\* The answer does not arrive: after the deadline, or for an error of the database.
LoseReply(g) ==
    /\ (expired(g) /\ UNCHANGED upsets) \/ Upset
    /\ UNCHANGED <<rowVars, answered>>

saveBotMessage(g, i) ==
    /\ g \in Answering /\ chat[g].stage \in {"replying", "telling"}
    /\ SaveReply(g, i) \/ LoseReply(g)
    /\ Ends(g)
    /\ UNCHANGED <<waiting, blank, late, unread, hidden, pageVars, offlineVars, accounted>>

\* The count of an answer that was saved at the last moment fails with the deadline.
CountExpired(i) ==
    /\ i \in owed /\ sent[i].peer = Bot
    /\ owed' = owed \ {i}
    /\ accounted' = accounted \cup {i}
    /\ UNCHANGED <<sent, overtaken, unread, hidden, pageVars, offlineVars, upsets, chatVars>>

\* The process dies with its goroutines; nothing starts them again.
Crash ==
    /\ Upset
    /\ waiting' = {}
    /\ chat' = [g \in Goroutines |-> Idle]
    /\ UNCHANGED <<rowVars, unread, hidden, pageVars, offlineVars, accounted>>
    /\ UNCHANGED <<answered, blank, late>>

-----------------------------------------------------------------------------
replyFromAI(g) ==
    \/ \E q \in waiting : ReadContext(g, q)
    \/ generateAIReply(g) \/ ExecTools(g) \/ SayNothing(g)
    \/ \E i \in Ids : saveBotMessage(g, i)

\* Bound: what I write is to the bot.
Others ==
    \/ \E i \in Ids : Increment(i) \/ \E p \in Peers \ {Bot} : SaveMessage(i, p) \/ SaveMedia(i, p)
    \/ \E s \in Slots : Page(s)
    \/ DeleteConversationMessages \/ loadOfflineMessages \/ Reload

AssistantNext ==
    \/ Others /\ UNCHANGED chatVars
    \/ \E i \in Ids : AskBot(i) \/ CountExpired(i)
    \/ \E g \in Goroutines : replyFromAI(g) \/ Expire(g)
    \/ Crash

AssistantSpec == AssistantInit /\ [][AssistantNext]_assistantVars

-----------------------------------------------------------------------------
Questions == {i \in With(Bot) : sent[i].mine}

AssistantTypeOK ==
    /\ TypeOK
    /\ waiting \subseteq Questions
    /\ chat \in [Goroutines -> Chat \cup {Idle}]
    /\ \A g \in Answering : chat[g].question \in Questions
    /\ answered \subseteq Questions /\ blank \subseteq Questions /\ late \subseteq Questions

(***************************************************************************)
(* The model is given the question, unless I deleted it or as many newer   *)
(* messages as it is given were there by then.                             *)
(***************************************************************************)
ContextHasTheQuestion ==
    \A g \in Answering :
        LET q == chat[g].question
        IN  \/ q \in chat[g].context \cup hidden
            \/ Cardinality({i \in chat[g].context : i > q}) = ContextSize

(***************************************************************************)
(* As long as no call and no process failed, nobody waits for an answer to *)
(* a question that nobody is working on, but where the model said nothing  *)
(* or the time was over.  Neither is for the goroutine to say: the one is  *)
(* the model's doing and the other the clock's.                            *)
(***************************************************************************)
SilenceHasACause ==
    upsets = 0 =>
        Questions \subseteq answered \cup blank \cup late \cup waiting
                            \cup {chat[g].question : g \in Answering}

(***************************************************************************)
(* A failure is told: the goroutine that has a reason to tell does not end *)
(* without an answer.  (It does, when the reason is that its time is over: *)
(* the answer is saved with the same context.)                             *)
(***************************************************************************)
FailureIsTold ==
    [][\A g \in Answering :
        chat[g].stage = "telling" /\ chat'[g] = Idle
            => chat[g].question \in answered']_assistantVars
=============================================================================
