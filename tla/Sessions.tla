------------------------------- MODULE Sessions -------------------------------
(***************************************************************************)
(* The browsers of one user, the refresh tokens they hold and the store    *)
(* the tokens are valid in: TokenService on RedisService, which turns to a *)
(* map in memory while Redis is away, and ApiClient.fetch, which refreshes *)
(* on a 401 and retries once.  A rotation is four statements.              *)
(*                                                                         *)
(* Tokens do not grow old here: the keys and the cookie live for seven     *)
(* days.  An access token may be refused at any time, for its age too.     *)
(***************************************************************************)
EXTENDS Naturals, FiniteSets, Requests

CONSTANTS
  SessionCalls,   \* requests of the browsers
  Browsers,
  NoToken,
  From            \* [SessionCalls -> Browsers]

ASSUME SessionAssumption ==
  /\ SessionCalls \subseteq Calls
  /\ Calls \cap Browsers = {} /\ NoToken \notin Calls \cup Browsers
  /\ From \in [SessionCalls -> Browsers]

\* A token is named after the call that generated it, or after the browser
\* that logged in before the calls of the instance.
Tokens == SessionCalls \cup Browsers

VARIABLES
  redis,       \* keys in Redis
  memory,      \* keys of memoryStore
  fallback,    \* useMemoryFallback
  link,        \* to Redis
  cookie,      \* refresh token of each browser
  carried,     \* the refresh token a call sent
  signsOut,    \* calls that are a logout
  found,       \* keys a call was given by KEYS
  parent,      \* history: the token whose rotation generated a token
  revoked,     \* history: tokens deleted as valid ones, not rotated
  contested,   \* history: tokens revoked or checked again amid a rotation
  switched,    \* history: another store may have been turned to
  troubled     \* history: browsers whose session was disturbed

store == <<redis, memory, fallback>>
mind == <<carried, signsOut, found>>
history == <<parent, revoked, contested, switched, troubled>>
sessionVars == <<store, link, cookie, mind, history>>

\* A command that fails turns to the map, and so does every later one.
OnMemory == fallback \/ link # "ready"
Current == IF OnMemory THEN memory ELSE redis
Store(S) ==
  /\ fallback' = OnMemory
  /\ IF OnMemory THEN memory' = S /\ UNCHANGED redis
                 ELSE redis' = S /\ UNCHANGED memory

SetWithTTL(t) == Store(Current \cup {t})
Del(S) == Store(Current \ S)
Exists(t) == t \in Current

Rotating(c) == pc[c] \in {"check", "spend", "renew", "generate", "answer", "find",
                       "remove"}
Signing(c) == pc[c] = "revoke"
OthersAtSession(c) ==
  \E d \in SessionCalls \ {c} : From[d] = From[c] /\ (Rotating(d) \/ Signing(d))

\* A call ends, and what it held is gone.
End(c, l) ==
  /\ Goto(c, l)
  /\ carried' = [carried EXCEPT ![c] = NoToken]
  /\ signsOut' = signsOut \ {c}
  /\ found' = [found EXCEPT ![c] = {}]

\* A 401 that stands: ApiClient clears localStorage, the cookies stay, and the
\* page is the login page.
Redirect(c) == End(c, "failed")

SessionInit ==
  /\ RequestsInit
  /\ redis = Browsers /\ memory = {} /\ fallback = FALSE /\ link = "ready"
  /\ cookie = [b \in Browsers |-> b]
  /\ carried = [c \in SessionCalls |-> NoToken]
  /\ signsOut = {}
  /\ found = [c \in SessionCalls |-> {}]
  /\ parent = [t \in SessionCalls |-> NoToken]
  /\ revoked = {} /\ contested = {} /\ switched = FALSE /\ troubled = {}

\* fetch, then again after a refresh.  Access tokens are not kept: one may have
\* expired, or the account be disabled or locked for now, whenever JwtAuthGuard
\* and JwtStrategy look.
SendRequest(c) ==
  /\ pc[c] = "idle"
  /\ Goto(c, "done") \/ Goto(c, "unauthorised")
  /\ UNCHANGED <<sessionVars, stale>>

\* Whoever disturbs the session of a browser is remembered.
Overlap(c) ==
  troubled' = IF OthersAtSession(c) THEN troubled \cup {From[c]} ELSE troubled

\* JwtRefreshStrategy takes the token from the cookie; the client sends no body.
TokenSent(c) == cookie[From[c]]

AskRefresh(c) ==
  /\ pc[c] = "unauthorised"
  /\ IF TokenSent(c) = NoToken THEN Redirect(c)
     ELSE /\ carried' = [carried EXCEPT ![c] = TokenSent(c)]
          /\ Goto(c, "check")
          /\ UNCHANGED <<signsOut, found>>
  /\ Overlap(c)
  /\ UNCHANGED <<store, link, cookie, parent, revoked, contested, switched, stale>>

RotatedBy(t) == {c \in SessionCalls : pc[c] = "spend" /\ carried[c] = t}

\* A likely mistake: the old token is left valid.
CheckTokenOnly(c) ==
  /\ pc[c] = "check"
  /\ fallback' = OnMemory
  /\ Goto(c, IF Exists(carried[c]) THEN "renew" ELSE "find")
  /\ UNCHANGED <<redis, memory, link, cookie, mind, history, stale>>

\* rotateRefreshToken: a token that is not there was stolen, or so it seems.
CheckToken(c) ==
  /\ pc[c] = "check"
  /\ fallback' = OnMemory
  /\ Goto(c, IF Exists(carried[c]) THEN "spend" ELSE "find")
  /\ contested' = IF RotatedBy(carried[c]) = {} THEN contested
                                                ELSE contested \cup {carried[c]}
  /\ UNCHANGED <<redis, memory, link, cookie, mind, parent, revoked,
                 switched, troubled, stale>>

SpendToken(c) ==
  /\ pc[c] = "spend"
  /\ Del({carried[c]})
  /\ Goto(c, "renew")
  /\ UNCHANGED <<link, cookie, mind, history, stale>>

RenewToken(c) ==
  /\ pc[c] = "renew"
  /\ SetWithTTL(c)
  /\ parent' = [parent EXCEPT ![c] = carried[c]]
  /\ Goto(c, "answer")
  /\ UNCHANGED <<link, cookie, mind, revoked, contested, switched,
                 troubled, stale>>

\* setCookies.  refreshTokens looks at the account when the token is already
\* rotated: one that is disabled or locked loses it.
AnswerTokens(c) ==
  /\ pc[c] = "answer"
  /\ \/ /\ cookie' = [cookie EXCEPT ![From[c]] = c]
        /\ IF carried[c] = NoToken THEN End(c, "done")
                                   ELSE Goto(c, "retry") /\ UNCHANGED mind
        /\ UNCHANGED troubled
     \/ /\ carried[c] # NoToken
        /\ Redirect(c)
        /\ troubled' = troubled \cup {From[c]}
        /\ UNCHANGED cookie
  /\ UNCHANGED <<store, link, parent, revoked, contested, switched, stale>>

\* The request once more; a second 401 is the end of the session.
RetryRequest(c) ==
  /\ pc[c] = "retry"
  /\ End(c, "done") \/ Redirect(c)
  /\ UNCHANGED <<store, link, cookie, history, stale>>

\* handleLogin, a new session; a password that is wrong changes nothing here.
Login(c) ==
  /\ pc[c] = "idle"
  /\ carried' = [carried EXCEPT ![c] = NoToken]
  /\ Goto(c, "generate")
  /\ troubled' = IF OthersAtSession(c) THEN troubled \cup {From[c]}
                                       ELSE troubled \ {From[c]}
  /\ UNCHANGED <<store, link, cookie, signsOut, found, parent, revoked,
                 contested, switched, stale>>

GenerateToken(c) ==
  /\ pc[c] = "generate"
  /\ SetWithTTL(c)
  /\ Goto(c, "answer")
  /\ UNCHANGED <<link, cookie, mind, history, stale>>

\* handleLogout.  The guard refuses a browser whose access token has expired and
\* then nothing is revoked; the page does not look at the answer.
Logout(c) ==
  /\ pc[c] = "idle"
  /\ \/ Goto(c, "revoke") /\ carried' = [carried EXCEPT ![c] = cookie[From[c]]]
     \/ Goto(c, "failed") /\ UNCHANGED carried
  /\ Overlap(c)
  /\ UNCHANGED <<store, link, cookie, signsOut, found, parent, revoked, contested,
                 switched, stale>>

AmidRotation(S) == {t \in S : \E c \in SessionCalls :
                                pc[c] \in {"spend", "renew"} /\ carried[c] = t}

\* The server forgets the tokens in S.
Revoke(S) ==
  /\ Del(S)
  /\ revoked' = revoked \cup (S \cap Current)
  /\ contested' = contested \cup AmidRotation(S)

ClearCookies(c) == cookie' = [cookie EXCEPT ![From[c]] = NoToken]

\* A likely mistake: the user is signed out everywhere.
RevokeEverywhere(c) ==
  /\ pc[c] = "revoke"
  /\ Revoke(Current)
  /\ ClearCookies(c)
  /\ End(c, "done")
  /\ UNCHANGED <<link, parent, switched, troubled, stale>>

RevokeOne(c) ==
  /\ pc[c] = "revoke"
  /\ Revoke({carried[c]})
  /\ ClearCookies(c)
  /\ End(c, "done")
  /\ UNCHANGED <<link, parent, switched, troubled, stale>>

LogoutAll(c) ==
  /\ pc[c] = "idle"
  /\ signsOut' = signsOut \cup {c}
  /\ Goto(c, "find")
  /\ UNCHANGED <<store, link, cookie, carried, found, history, stale>>

\* After a logout the cookies are cleared; a token that was missed is refused.
Forget(c, S) ==
  /\ Revoke(S)
  /\ IF c \in signsOut THEN ClearCookies(c) /\ End(c, "done")
                       ELSE Redirect(c) /\ UNCHANGED cookie

\* delByPattern: KEYS, then DEL of what it returned; on the map both at once.
FindTokens(c) ==
  /\ pc[c] = "find"
  /\ IF OnMemory THEN Forget(c, memory)
     ELSE /\ found' = [found EXCEPT ![c] = redis]
          /\ Goto(c, "remove")
          /\ UNCHANGED <<store, cookie, carried, signsOut, revoked, contested>>
  /\ troubled' = Browsers
  /\ UNCHANGED <<link, parent, switched, stale>>

RemoveFound(c) ==
  /\ pc[c] = "remove"
  /\ Forget(c, found[c])
  /\ UNCHANGED <<link, parent, switched, troubled, stale>>

\* The tab is closed, the answer lost.
AbortSession(c) ==
  /\ InFlight(c)
  /\ End(c, "failed")
  /\ troubled' = troubled \cup {From[c]}
  /\ UNCHANGED <<store, link, cookie, parent, revoked, contested, switched, stale>>

Disturbed == switched' = TRUE /\ troubled' = Browsers

\* The connection breaks; the client reports an error and tries again.
RedisFails ==
  /\ link = "ready" /\ ~switched
  /\ link' = "down" /\ fallback' = TRUE
  /\ Disturbed
  /\ UNCHANGED <<redis, memory, cookie, mind, parent, revoked, contested,
                 pc, stale>>

\* 'connect' ends the fallback.  A command before 'ready' brings it back, and
\* then it stays.
RedisConnects ==
  /\ link = "down"
  /\ link' = "connected" /\ fallback' = FALSE
  /\ Disturbed
  /\ UNCHANGED <<redis, memory, cookie, mind, parent, revoked, contested,
                 pc, stale>>

RedisReady ==
  /\ link = "connected"
  /\ link' = "ready"
  /\ Disturbed
  /\ UNCHANGED <<store, cookie, mind, parent, revoked, contested, pc, stale>>

SessionStep(c) ==
  \/ AskRefresh(c) \/ CheckToken(c) \/ SpendToken(c) \/ RenewToken(c)
  \/ AnswerTokens(c) \/ RetryRequest(c) \/ GenerateToken(c) \/ RevokeOne(c)
  \/ FindTokens(c) \/ RemoveFound(c)

SessionNext ==
  \/ \E c \in SessionCalls :
       \/ SendRequest(c) \/ Login(c) \/ Logout(c) \/ LogoutAll(c)
       \/ SessionStep(c) \/ AbortSession(c)
  \/ RedisFails \/ RedisConnects \/ RedisReady

SessionSpec == SessionInit /\ [][SessionNext]_<<sessionVars, pc, stale>>

-----------------------------------------------------------------------------

\* The stores, the cookies and the calls hold values of their types.
SessionTypeOK ==
  /\ redis \subseteq Tokens /\ memory \subseteq Tokens /\ fallback \in BOOLEAN
  /\ link \in {"ready", "down", "connected"}
  /\ cookie \in [Browsers -> Tokens \cup {NoToken}]
  /\ carried \in [SessionCalls -> Tokens \cup {NoToken}]
  /\ found \in [SessionCalls -> SUBSET Tokens]
  /\ parent \in [SessionCalls -> Tokens \cup {NoToken}]

\* A browser keeps its session: unless two requests of it were at its session
\* together, an answer was lost, the store changed, the account was refused or
\* all tokens were revoked, its cookie is a token the store knows whenever it
\* is not being rotated, and the alarm about a stolen token is never false.
SessionKept ==
  /\ \A b \in Browsers \ troubled :
       \/ cookie[b] = NoToken \/ cookie[b] \in Current
       \/ \E c \in SessionCalls : From[c] = b /\ (Rotating(c) \/ Signing(c))
  /\ \A c \in SessionCalls \ signsOut :
       pc[c] = "find" => From[c] \in troubled

\* A refresh token is spent once and a revoked one never, while the store
\* stays the same and no second check or revocation falls between the check
\* of a token and its removal.
SpentOnce ==
  switched \/ \A t \in Tokens \ contested :
    Cardinality({c \in SessionCalls : parent[c] = t})
      <= IF t \in revoked THEN 0 ELSE 1
=============================================================================
