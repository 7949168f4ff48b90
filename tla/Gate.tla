-------------------------------- MODULE Gate --------------------------------
(***************************************************************************)
(* Who is let in: the pages a user has open in a browser, the token in the *)
(* storage they share, the blacklist that a sign-out writes to, the        *)
(* WebSocket handshake, and the fixed window that limits the logins.       *)
(*                                                                         *)
(* Time goes in half seconds and is kept relative to the clock.  A token   *)
(* is the whole second it expires at, counted from the current one (the    *)
(* rest of its payload is the user's, so two logins of one second return   *)
(* the same token); entries of Redis live for a number of half seconds.    *)
(* A request is judged when it is answered, with the token it was sent     *)
(* with.  Not modelled: signatures and passwords, other users.             *)
(***************************************************************************)
EXTENDS Integers, Functions

CONSTANTS
    Pages,     \* the tabs of the browser
    NoToken,   \* signed out, or nothing asked
    TTL,       \* the lifetime of a token, in seconds
    Limit,     \* the logins of a window
    Window,    \* the length of a window, in half seconds
    MaxFaults  \* bound: calls to Redis or the database that fail

ASSUME GateAssumption ==
    /\ NoToken \notin Int
    /\ TTL \in Nat \ {0}
    /\ Limit \in Nat \ {0}
    /\ Window \in Nat \ {0}
    /\ MaxFaults \in Nat

VARIABLES
    half,      \* which half of the current second it is
    stored,    \* the token in the browser's storage
    token,     \* token[c]: the token c holds
    polling,   \* polling[c]: the presence timer of c runs
    asked,     \* asked[c][what]: the token of c's request that is under way
    connected, \* connected[c]: c's WebSocket is registered at the hub
    blacklist, \* blacklist[k]: what is left of the entry of token k
    revoked,   \* history: the tokens signed out while they were valid
    count,     \* the counter of the window
    left,      \* what is left of the window
    recent,    \* history: recent[i]: the logins let through i half seconds ago
    faults

pageVars == <<stored, token, polling, asked, connected>>
storeVars == <<blacklist, revoked>>
limitVars == <<count, left, recent>>
gateVars == <<half, pageVars, storeVars, limitVars, faults>>

Kinds == {"poll", "logout"} \* of requests
Tokens == -1..TTL            \* -1: it has expired
Minute == 120                \* in half seconds

GateInit ==
    /\ half = 0
    /\ stored = NoToken
    /\ token = [c \in Pages |-> NoToken]
    /\ polling = [c \in Pages |-> FALSE]
    /\ asked = [c \in Pages |-> [what \in Kinds |-> NoToken]]
    /\ connected = [c \in Pages |-> FALSE]
    /\ blacklist = [k \in 0..TTL |-> 0]
    /\ revoked = {}
    /\ count = 0 /\ left = 0
    /\ recent = [i \in 0..Window - 1 |-> 0]
    /\ faults = 0

Fault == faults < MaxFaults /\ faults' = faults + 1

-----------------------------------------------------------------------------
\* A token is taken until the second it expires in is over, unless it is on the blacklist.
ParseToken(k) == k >= 0

Contains(k) == blacklist[k] > 0

Valid(k) == ParseToken(k) /\ ~Contains(k)

Refused(k) == ~Valid(k)

\* Mutant: an entry without a time to live is not kept at all.
BlacklistUnclamped(k, ttl) == blacklist' = [blacklist EXCEPT ![k] = ttl]

\* The entry lives as long as it is told, or a minute when that is no time.
Blacklist(k, ttl) == blacklist' = [blacklist EXCEPT ![k] = IF ttl > 0 THEN ttl ELSE Minute]

\* Mutant: the remaining time is taken for seconds.
LogoutBriefly(k) == Blacklist(k, k) /\ revoked' = revoked \cup {k}

\* The entry is to live until the second the token expires in.
Logout(k) == Blacklist(k, 2 * k - half) /\ revoked' = revoked \cup {k}

\* One script: the counter goes up, the first of a window sets its end.  (Above Limit its
\* exact value does not matter.)
Allow ==
    /\ count' = IF count > Limit THEN count ELSE count + 1
    /\ left' = IF count = 0 THEN Window ELSE left

\* Mutant: one more than the limit.
AllowedOneMore == count <= Limit

Allowed == count < Limit

\* The call goes on only when it is allowed.
WithRateLimit ==
    /\ Allow
    /\ recent' = IF Allowed THEN [recent EXCEPT ![0] = @ + 1] ELSE recent

-----------------------------------------------------------------------------
(***************************************************************************)
(* The page.                                                               *)
(***************************************************************************)
\* Mutant: the socket is left open.
ClearTokenOnly(c) ==
    /\ stored' = NoToken
    /\ token' = [token EXCEPT ![c] = NoToken]
    /\ polling' = [polling EXCEPT ![c] = FALSE]
    /\ UNCHANGED connected

clearSession(c) ==
    /\ stored' = NoToken
    /\ token' = [token EXCEPT ![c] = NoToken]
    /\ polling' = [polling EXCEPT ![c] = FALSE]
    /\ connected' = [connected EXCEPT ![c] = FALSE]

\* The first requests of a session.  The timer starts when all succeed; a refusal ends the
\* session, another error leaves it without a timer.
bootstrapWorkspace(c, k) ==
    \/ Refused(k) /\ clearSession(c) /\ UNCHANGED faults
    \/ /\ stored' = k
       /\ token' = [token EXCEPT ![c] = k]
       /\ connected' = [connected EXCEPT ![c] = FALSE]
       /\ \/ Valid(k) /\ polling' = [polling EXCEPT ![c] = TRUE] /\ UNCHANGED faults
          \/ Fault /\ polling' = [polling EXCEPT ![c] = FALSE]

\* A login: limited, then refused for its password, or given a token of this second.
Login(c) ==
    /\ token[c] = NoToken
    /\ WithRateLimit
    /\ \/ UNCHANGED <<pageVars, faults>>
       \/ Allowed /\ bootstrapWorkspace(c, TTL) /\ UNCHANGED asked
    /\ UNCHANGED <<half, storeVars>>

\* A page is opened or loaded anew: what it was doing is gone, the stored token is not.
Load(c) ==
    /\ asked' = [asked EXCEPT ![c] = [what \in Kinds |-> NoToken]]
    /\ \/ stored = NoToken /\ clearSession(c) /\ UNCHANGED faults
       \/ stored # NoToken /\ bootstrapWorkspace(c, stored)
    /\ UNCHANGED <<half, storeVars, limitVars>>

\* The presence timer, while there is a session; or the user signs out.
Ask(c, what) ==
    /\ what = "poll" => polling[c]
    /\ token[c] # NoToken
    /\ asked[c][what] = NoToken
    /\ asked' = [asked EXCEPT ![c][what] = token[c]]
    /\ UNCHANGED <<half, stored, token, polling, connected, storeVars, limitVars, faults>>

Accepted(c, what, k) ==
    \/ /\ what = "poll"
       /\ UNCHANGED <<stored, token, polling, connected, storeVars>>
    \/ /\ what = "logout"
       /\ Logout(k)
       /\ clearSession(c)

\* Mutant: whatever goes wrong ends the session.
FailedAnyway(c, what, k) ==
    /\ Fault
    /\ clearSession(c)
    /\ UNCHANGED storeVars

\* An error that is not a refusal: a session stays as it is, but a sign-out clears the page
\* also when the token may not have been revoked.
Failed(c, what, k) ==
    /\ Fault
    /\ \/ /\ what = "poll"
          /\ UNCHANGED <<stored, token, polling, connected, storeVars>>
       \/ /\ what = "logout"
          /\ clearSession(c)
          /\ (Valid(k) /\ Logout(k)) \/ UNCHANGED storeVars

\* An answer takes its effect on the session there is, whichever it was asked for.
Answer(c, what) ==
    LET k == asked[c][what]
    IN  /\ k # NoToken
        /\ asked' = [asked EXCEPT ![c][what] = NoToken]
        /\ \/ Valid(k) /\ Accepted(c, what, k) /\ UNCHANGED faults
           \/ Refused(k) /\ clearSession(c) /\ UNCHANGED <<storeVars, faults>>
           \/ Failed(c, what, k)
        /\ UNCHANGED <<half, limitVars>>

\* The handshake, which a page tries again and again: the token is checked, the client
\* registered and the user's older connection closed.
ServeWS(c) ==
    /\ token[c] # NoToken
    /\ ~connected[c]
    /\ Valid(token[c])
    /\ connected' = [d \in Pages |-> d = c]
    /\ UNCHANGED <<half, stored, token, polling, asked, storeVars, limitVars, faults>>

-----------------------------------------------------------------------------
\* What is left of a token one half second later.
Older(k) == IF k = NoToken \/ k < 0 \/ half = 0 THEN k ELSE k - 1

Less(n) == IF n = 0 THEN 0 ELSE n - 1

Tick ==
    /\ half' = 1 - half
    /\ stored' = Older(stored)
    /\ token' = [c \in Pages |-> Older(token[c])]
    /\ asked' = [c \in Pages |-> [what \in Kinds |-> Older(asked[c][what])]]
    /\ blacklist' = [k \in 0..TTL |->
                        IF half = 0 THEN Less(blacklist[k])
                        ELSE IF k = TTL THEN 0 ELSE Less(blacklist[k + 1])]
    /\ revoked' = {Older(k) : k \in revoked} \ {-1}
    /\ left' = Less(left)
    /\ count' = IF left <= 1 THEN 0 ELSE count
    /\ recent' = [i \in 0..Window - 1 |-> IF i = 0 THEN 0 ELSE recent[i - 1]]
    /\ UNCHANGED <<polling, connected, faults>>

GateNext ==
    \/ Tick
    \/ \E c \in Pages :
        \/ Login(c) \/ Load(c) \/ ServeWS(c)
        \/ \E what \in Kinds : Ask(c, what) \/ Answer(c, what)

GateSpec == GateInit /\ [][GateNext]_gateVars

\* Time passes, the timer of a page fires, and what it asks is answered.
FairGateSpec ==
    /\ GateSpec
    /\ WF_gateVars(Tick)
    /\ \A c \in Pages : WF_gateVars(Ask(c, "poll")) /\ WF_gateVars(Answer(c, "poll"))

-----------------------------------------------------------------------------
GateTypeOK ==
    /\ half \in 0..1
    /\ stored \in Tokens \cup {NoToken}
    /\ token \in [Pages -> Tokens \cup {NoToken}]
    /\ polling \in [Pages -> BOOLEAN]
    /\ asked \in [Pages -> [Kinds -> Tokens \cup {NoToken}]]
    /\ connected \in [Pages -> BOOLEAN]
    /\ blacklist \in [0..TTL -> Nat]
    /\ revoked \subseteq 0..TTL
    /\ count \in 0..Limit + 1
    /\ left \in 0..Window
    /\ recent \in [0..Window - 1 -> Nat]
    /\ faults \in 0..MaxFaults

(***************************************************************************)
(* A token that was signed out stays refused until the second it expires   *)
(* in.  Not through that second: the entry ends where it begins, and the   *)
(* parser takes the token until it is over, so for its last second a       *)
(* revoked token is good again.                                            *)
(***************************************************************************)
RevokedIsRefused == \A k \in revoked : k >= 1 => Refused(k)

(***************************************************************************)
(* A page loses its session only because its token is refused, because its *)
(* user signs out, here or in another page before this one is loaded anew  *)
(* (it then goes on with the stored token, which may be refused as well),  *)
(* or through an answer to an earlier session of it that arrives late: the *)
(* page does not ask for which token a request was refused.                *)
(***************************************************************************)
EndedForACause(c) ==
    \/ Refused(token[c])
    \/ asked[c]["logout"] # NoToken
    \/ stored = NoToken \/ Refused(stored)
    \/ \E what \in Kinds : asked[c][what] \notin {NoToken, token[c]}

SessionsEndForACause ==
    [][\A c \in Pages :
        token[c] # NoToken /\ token'[c] = NoToken => EndedForACause(c)]_gateVars

(***************************************************************************)
(* A page whose timer runs notices that its token is refused, expired or   *)
(* signed out elsewhere, and ends the session with its socket, which       *)
(* nothing else closes: the token is checked at the handshake only.  A     *)
(* session whose first requests failed for another reason has no timer and *)
(* keeps its dead token.                                                   *)
(***************************************************************************)
Outlived(c) ==
    IF token[c] = NoToken THEN connected[c] ELSE polling[c] /\ Refused(token[c])

DeadSessionEnds == \A c \in Pages : Outlived(c) ~> ~Outlived(c)

(***************************************************************************)
(* In any span as long as a window, at most twice the limit is let         *)
(* through: the end of one window and the beginning of the next.           *)
(***************************************************************************)
AtMostTwiceTheLimit == SumFunctionOnSet(recent, 0..Window - 1) <= 2 * Limit
=============================================================================
