--------------------------- MODULE SessionsProofs ---------------------------
(***************************************************************************)
(* Sessions: tokens are spent once and nobody who is signed in is sent to  *)
(* the login page by chance, for any browsers and number of calls.         *)
(***************************************************************************)
EXTENDS Sessions, FiniteSetTheorems, TLAPS

SessionLabels ==
  {"idle", "unauthorised", "check", "spend", "renew", "generate", "answer", "retry",
   "revoke", "find", "remove", "done", "failed"}

SessionTyped ==
  /\ SessionTypeOK
  /\ pc \in [Calls -> SessionLabels]
  /\ troubled \subseteq Browsers
  /\ signsOut \subseteq SessionCalls

\* A token is in a store after its call has put it there, and the browser of
\* that call alone gets it.
Made(t) == t \in Browsers \/ pc[t] \in {"answer", "retry", "done", "failed"}
Given(t, b) ==
  IF t \in Browsers THEN t = b ELSE From[t] = b /\ pc[t] \in {"retry", "done", "failed"}

TokensGiven ==
  /\ \A t \in redis \cup memory : Made(t)
  /\ \A c \in SessionCalls : \A t \in found[c] : Made(t)
  /\ \A t \in revoked : t \in Tokens /\ Made(t)
  /\ \A b \in Browsers : cookie[b] # NoToken => Given(cookie[b], b)
  /\ \A c \in SessionCalls :
       /\ carried[c] # NoToken => Given(carried[c], From[c])
       /\ parent[c] # NoToken => Given(parent[c], From[c])

\* As long as the connection holds, Redis is the store.
StoreSteady == switched \/ (link = "ready" /\ ~fallback)

\* A rotation of t that has checked or spent it.
Holds(c, t) == parent[c] = t \/ (pc[c] \in {"spend", "renew"} /\ carried[c] = t)
Spent(c, t) == parent[c] = t \/ (pc[c] = "renew" /\ carried[c] = t)

\* A token is in the store until its one rotation spends it or it is revoked.
OneRotation ==
  \A t \in Tokens \ contested :
    /\ \A c, d \in SessionCalls : Holds(c, t) /\ Holds(d, t) => c = d
    /\ \A c \in SessionCalls : Spent(c, t) => t \notin redis
    /\ \A c \in SessionCalls : Holds(c, t) => Spent(c, t) \/ t \in redis
    /\ t \in revoked => t \notin redis /\ \A c \in SessionCalls : ~Holds(c, t)

RotatedOnce == switched \/ OneRotation

\* The session of a browser is in the hands of c.
AtSession(c) ==
  pc[c] \in {"check", "spend", "renew", "generate", "answer", "revoke"}
Busy(b) == \E c \in SessionCalls : From[c] = b /\ (Rotating(c) \/ Signing(c))

\* t is valid and nobody is about to delete it with what KEYS returned.
Safe(t) ==
  t \in Current /\ \A c \in SessionCalls : pc[c] = "remove" => t \notin found[c]

\* A browser that nothing has disturbed: its cookie is safe whenever nothing is
\* being done to its session, one call at a time does it, and that call has a
\* safe token before it spends it and after it has got a new one.
CookieSafe(b) == cookie[b] = NoToken \/ Safe(cookie[b]) \/ Busy(b)

CallSafe(c) ==
  /\ pc[c] = "check" => carried[c] # NoToken /\ Safe(carried[c])
  /\ pc[c] = "answer" => Safe(c)
  /\ pc[c] = "find" => c \in signsOut
  /\ pc[c] # "remove"

Alone(c) ==
  \A d \in SessionCalls \ {c} : From[c] = From[d] => ~(AtSession(c) /\ AtSession(d))

Undisturbed ==
  /\ \A b \in Browsers \ troubled : CookieSafe(b)
  /\ \A c \in SessionCalls : From[c] \notin troubled => CallSafe(c) /\ Alone(c)

SessionInv ==
  SessionTyped /\ TokensGiven /\ StoreSteady /\ RotatedOnce /\ Undisturbed

SessionView == <<sessionVars, pc, stale>>

-----------------------------------------------------------------------------

LEMMA NoTokenIsNone == NoToken \notin Tokens /\ \A c \in SessionCalls : c \notin Browsers /\ c \in Calls
  BY SessionAssumption DEF Tokens

LEMMA SessionInitInv == SessionInit => SessionInv
<1> SUFFICES ASSUME SessionInit PROVE SessionInv
  OBVIOUS
<1> USE SessionAssumption, NoTokenIsNone DEF SessionInit, RequestsInit
<1>1. SessionTyped
  BY DEF SessionTyped, SessionTypeOK, SessionLabels, Tokens
<1>2. TokensGiven
  BY DEF TokensGiven, Made, Given
<1>3. StoreSteady
  BY DEF StoreSteady
<1>4. RotatedOnce
  BY DEF RotatedOnce, OneRotation, Holds, Spent
<1>5. Undisturbed
  BY DEF Undisturbed, CookieSafe, CallSafe, Alone, Safe, Current, OnMemory, AtSession
<1>6. QED
  BY <1>1, <1>2, <1>3, <1>4, <1>5 DEF SessionInv

\* Commands do not change the store they go to.
LEMMA StoreSets ==
  ASSUME NEW S, Store(S), link' = link
  PROVE  Current' = S
  BY DEF Store, Current, OnMemory

LEMMA ChecksKeepStore ==
  ASSUME fallback' = OnMemory, UNCHANGED <<redis, memory, link>>
  PROVE  Current' = Current
  BY DEF Current, OnMemory

Links == RedisFails \/ RedisConnects \/ RedisReady

LEMMA SessionSteps ==
  ASSUME [SessionNext]_SessionView
  PROVE  \/ \E c \in SessionCalls :
              \/ SendRequest(c) \/ Login(c) \/ Logout(c) \/ LogoutAll(c) \/ AskRefresh(c)
              \/ CheckToken(c) \/ SpendToken(c) \/ RenewToken(c) \/ AnswerTokens(c)
              \/ RetryRequest(c) \/ GenerateToken(c) \/ RevokeOne(c) \/ FindTokens(c)
              \/ RemoveFound(c) \/ AbortSession(c)
         \/ Links
         \/ UNCHANGED SessionView
  BY DEF SessionNext, SessionStep, SessionView, Links

LEMMA SessionTypeInductive ==
  ASSUME SessionInv, [SessionNext]_SessionView
  PROVE  SessionTyped'
<1> USE SessionAssumption, NoTokenIsNone
    DEF SessionInv, SessionTyped, SessionTypeOK, SessionLabels, Goto, End, store, mind, history,
        sessionVars, Tokens
<1>1. ASSUME NEW c \in SessionCalls, SendRequest(c) \/ RetryRequest(c) PROVE SessionTyped'
  BY <1>1 DEF SendRequest, RetryRequest, Redirect
<1>2. ASSUME NEW c \in SessionCalls, Login(c) PROVE SessionTyped'
  BY <1>2 DEF Login
<1>3. ASSUME NEW c \in SessionCalls, Logout(c) PROVE SessionTyped'
  BY <1>3 DEF Logout, Overlap
<1>4. ASSUME NEW c \in SessionCalls, LogoutAll(c) PROVE SessionTyped'
  BY <1>4 DEF LogoutAll
<1>5. ASSUME NEW c \in SessionCalls, AskRefresh(c) PROVE SessionTyped'
  BY <1>5 DEF AskRefresh, Overlap, Redirect, TokenSent
<1>6. ASSUME NEW c \in SessionCalls, CheckToken(c) PROVE SessionTyped'
  BY <1>6 DEF CheckToken, OnMemory
<1>7. ASSUME NEW c \in SessionCalls, SpendToken(c) PROVE SessionTyped'
  BY <1>7 DEF SpendToken, Del, Store, OnMemory, Current
<1>8. ASSUME NEW c \in SessionCalls, RenewToken(c) PROVE SessionTyped'
  BY <1>8 DEF RenewToken, SetWithTTL, Store, OnMemory, Current
<1>9. ASSUME NEW c \in SessionCalls, AnswerTokens(c) PROVE SessionTyped'
  BY <1>9 DEF AnswerTokens, Redirect
<1>10. ASSUME NEW c \in SessionCalls, GenerateToken(c) PROVE SessionTyped'
  BY <1>10 DEF GenerateToken, SetWithTTL, Store, OnMemory, Current
<1>11. ASSUME NEW c \in SessionCalls, RevokeOne(c) PROVE SessionTyped'
  BY <1>11 DEF RevokeOne, Revoke, ClearCookies, Del, Store, OnMemory, Current
<1>12. ASSUME NEW c \in SessionCalls, FindTokens(c) PROVE SessionTyped'
  <2>1. CASE OnMemory
    <3>1. Forget(c, memory) /\ troubled' = Browsers /\ link' = link /\ parent' = parent
      BY <1>12, <2>1 DEF FindTokens
    <3>2. redis' \subseteq Tokens /\ memory' \subseteq Tokens /\ fallback' \in BOOLEAN
      BY <3>1 DEF Forget, Revoke, Del, Store, OnMemory, Current
    <3>3. /\ End(c, "done") \/ End(c, "failed")
          /\ cookie' \in [Browsers -> Tokens \cup {NoToken}]
      BY <3>1 DEF Forget, Redirect, ClearCookies
    <3>4. QED
      BY <3>1, <3>2, <3>3
  <2>2. CASE ~OnMemory
    BY <1>12, <2>2 DEF FindTokens
  <2>3. QED
    BY <2>1, <2>2
<1>13. ASSUME NEW c \in SessionCalls, RemoveFound(c) PROVE SessionTyped'
  BY <1>13 DEF RemoveFound, Forget, Redirect, Revoke, ClearCookies, Del, Store, OnMemory, Current
<1>14. ASSUME NEW c \in SessionCalls, AbortSession(c) PROVE SessionTyped'
  BY <1>14 DEF AbortSession
<1>15. CASE Links
  BY <1>15 DEF Links, RedisFails, RedisConnects, RedisReady, Disturbed
<1>16. CASE UNCHANGED SessionView
  BY <1>16 DEF SessionView
<1> HIDE DEF SessionInv, SessionTyped, SessionTypeOK, SessionLabels, Goto, End
<1>17. QED
  BY <1>1, <1>2, <1>3, <1>4, <1>5, <1>6, <1>7, <1>8, <1>9, <1>10, <1>11, <1>12, <1>13,
     <1>14, <1>15, <1>16, SessionSteps

\* Calls go from idle to their end once, so what was made or given stays.
LEMMA GivenStays ==
  ASSUME SessionInv, [SessionNext]_SessionView
  PROVE  /\ \A t \in Tokens : Made(t) => Made(t)'
         /\ \A t, b : Given(t, b) /\ t \in Tokens => Given(t, b)'
<1> USE SessionAssumption, NoTokenIsNone DEF SessionInv, SessionTyped, Goto, End, Made, Given, Tokens
<1>1. ASSUME NEW c \in SessionCalls, NEW l \in {"done", "failed", "retry"},
             pc' = [pc EXCEPT ![c] = l]
      PROVE  /\ \A t \in Tokens : Made(t) => Made(t)'
             /\ \A t, b : Given(t, b) /\ t \in Tokens => Given(t, b)'
  BY <1>1
<1>2. ASSUME NEW c \in SessionCalls, NEW l, pc' = [pc EXCEPT ![c] = l],
             pc[c] \notin {"answer", "retry", "done", "failed"}
      PROVE  /\ \A t \in Tokens : Made(t) => Made(t)'
             /\ \A t, b : Given(t, b) /\ t \in Tokens => Given(t, b)'
  BY <1>2
<1>3. CASE pc' = pc
  BY <1>3
<1>4. ASSUME NEW c \in SessionCalls,
             SendRequest(c) \/ RetryRequest(c) \/ AnswerTokens(c) \/ AbortSession(c)
      PROVE  \/ \E l \in {"done", "failed", "retry"} : pc' = [pc EXCEPT ![c] = l]
             \/ pc[c] = "idle" /\ pc' = [pc EXCEPT ![c] = "unauthorised"]
  BY <1>4 DEF SendRequest, RetryRequest, AnswerTokens, AbortSession, Redirect
<1>5. ASSUME NEW c \in SessionCalls,
             \/ Login(c) \/ Logout(c) \/ LogoutAll(c) \/ AskRefresh(c)
             \/ CheckToken(c) \/ SpendToken(c) \/ RenewToken(c)
             \/ GenerateToken(c) \/ RevokeOne(c) \/ FindTokens(c)
             \/ RemoveFound(c)
      PROVE  /\ \E l : pc' = [pc EXCEPT ![c] = l]
             /\ pc[c] \in {"idle", "unauthorised", "check", "spend", "renew", "generate",
                           "revoke", "find", "remove"}
  BY <1>5 DEF Login, Logout, LogoutAll, AskRefresh, CheckToken, SpendToken, RenewToken,
              GenerateToken, RevokeOne, FindTokens, RemoveFound, Forget, Redirect
<1> DEFINE Goal == /\ \A t \in Tokens : Made(t) => Made(t)'
                   /\ \A t, b : Given(t, b) /\ t \in Tokens => Given(t, b)'
<1>6. ASSUME NEW c \in SessionCalls,
             SendRequest(c) \/ RetryRequest(c) \/ AnswerTokens(c) \/ AbortSession(c)
      PROVE  Goal
  <2>1. CASE \E l \in {"done", "failed", "retry"} : pc' = [pc EXCEPT ![c] = l]
    BY <1>1, <2>1
  <2>2. CASE pc[c] = "idle" /\ pc' = [pc EXCEPT ![c] = "unauthorised"]
    BY <1>2, <2>2
  <2>3. QED
    BY <1>4, <1>6, <2>1, <2>2
<1>7. ASSUME NEW c \in SessionCalls,
             \/ Login(c) \/ Logout(c) \/ LogoutAll(c) \/ AskRefresh(c)
             \/ CheckToken(c) \/ SpendToken(c) \/ RenewToken(c)
             \/ GenerateToken(c) \/ RevokeOne(c) \/ FindTokens(c)
             \/ RemoveFound(c)
      PROVE  Goal
  <2>1. PICK l : pc' = [pc EXCEPT ![c] = l]
    BY <1>5, <1>7
  <2>2. pc[c] \notin {"answer", "retry", "done", "failed"}
    BY <1>5, <1>7
  <2>3. QED
    BY <1>2, <2>1, <2>2
<1>8. CASE Links \/ UNCHANGED SessionView
  BY <1>3, <1>8 DEF Links, RedisFails, RedisConnects, RedisReady, SessionView
<1> HIDE DEF SessionInv, SessionTyped, Goto, End, Made, Given, Tokens
<1>9. Goal
  BY <1>6, <1>7, <1>8, SessionSteps
<1>10. QED
  BY <1>9 DEF Goal

LEMMA TokensInductive ==
  ASSUME SessionInv, [SessionNext]_SessionView
  PROVE  TokensGiven'
<1> USE SessionAssumption, NoTokenIsNone, GivenStays
    DEF SessionInv, SessionTyped, SessionTypeOK, TokensGiven, Goto, End, store, mind, history,
        sessionVars
<1>1. /\ \A t \in Tokens : t # NoToken
      /\ SessionCalls \subseteq Tokens
      /\ \A t \in redis \cup memory : t \in Tokens /\ Made(t)'
      /\ \A b \in Browsers : cookie[b] # NoToken => cookie[b] \in Tokens
      /\ \A c \in SessionCalls : /\ carried[c] # NoToken => carried[c] \in Tokens
                                 /\ parent[c] # NoToken => parent[c] \in Tokens
  BY DEF Tokens
\* Nothing new but in the stores and in the cookies.
<1>2. ASSUME \A t \in redis' \cup memory' : t \in redis \cup memory \/ Made(t)',
             \A c \in SessionCalls : found'[c] \subseteq redis \cup memory \cup found[c],
             revoked' \subseteq revoked \cup redis \cup memory,
             \A b \in Browsers : cookie'[b] # NoToken =>
               cookie'[b] = cookie[b] \/ Given(cookie[b], b)',
             \A c \in SessionCalls :
               /\ carried'[c] \in {NoToken, carried[c], cookie[From[c]]}
               /\ parent'[c] \in {parent[c], carried[c]}
      PROVE  TokensGiven'
  <2>1. \A t \in redis' \cup memory' : Made(t)'
    BY <1>1, <1>2
  <2>2. \A c \in SessionCalls : \A t \in found'[c] : Made(t)'
    BY <1>1, <1>2
  <2>3. \A t \in revoked' : t \in Tokens /\ Made(t)'
    BY <1>1, <1>2
  <2>4. \A b \in Browsers : cookie'[b] # NoToken => Given(cookie[b], b)'
    BY <1>1, <1>2
  <2>5. \A c \in SessionCalls : /\ carried'[c] # NoToken => Given(carried[c], From[c])'
                                /\ parent'[c] # NoToken => Given(parent[c], From[c])'
    <3> TAKE c \in SessionCalls
    <3>1. From[c] \in Browsers
      OBVIOUS
    <3>2. \A t \in {carried[c], cookie[From[c]], parent[c]} :
            t # NoToken => t \in Tokens /\ Given(t, From[c])
      BY <1>1, <3>1
    <3>3. QED
      BY <1>2, <3>2
  <2>6. QED
    BY <2>1, <2>2, <2>3, <2>4, <2>5
<1>3. ASSUME NEW c \in SessionCalls,
             \/ SendRequest(c) \/ RetryRequest(c) \/ Login(c) \/ LogoutAll(c)
             \/ AbortSession(c)
      PROVE  TokensGiven'
  BY <1>2, <1>3 DEF SendRequest, RetryRequest, Login, LogoutAll, AbortSession, Redirect
<1>4. ASSUME NEW c \in SessionCalls, Logout(c) PROVE TokensGiven'
  BY <1>2, <1>4 DEF Logout
<1>5. ASSUME NEW c \in SessionCalls, AskRefresh(c) PROVE TokensGiven'
  BY <1>2, <1>5 DEF AskRefresh, Redirect, TokenSent
<1>6. ASSUME NEW c \in SessionCalls, CheckToken(c) PROVE TokensGiven'
  BY <1>2, <1>6 DEF CheckToken
<1>7. ASSUME NEW c \in SessionCalls, SpendToken(c) PROVE TokensGiven'
  BY <1>2, <1>7 DEF SpendToken, Del, Store, Current
<1>8. ASSUME NEW c \in SessionCalls, RenewToken(c) PROVE TokensGiven'
  <2>1. Made(c)'
    BY <1>8 DEF RenewToken, Made
  <2>2. redis' \cup memory' \subseteq redis \cup memory \cup {c}
    BY <1>8 DEF RenewToken, SetWithTTL, Store, Current
  <2>3. UNCHANGED <<cookie, carried, found, revoked>>
        /\ parent' = [parent EXCEPT ![c] = carried[c]]
    BY <1>8 DEF RenewToken
  <2>4. QED
    BY <1>2, <2>1, <2>2, <2>3
<1>9. ASSUME NEW c \in SessionCalls, AnswerTokens(c) PROVE TokensGiven'
  <2>1. /\ UNCHANGED <<redis, memory, parent, revoked>>
        /\ \A d \in SessionCalls : /\ found'[d] \subseteq found[d]
                                   /\ carried'[d] \in {NoToken, carried[d]}
        /\ cookie' = cookie \/ (/\ cookie' = [cookie EXCEPT ![From[c]] = c]
                                /\ \E l \in {"done", "retry"} : pc' = [pc EXCEPT ![c] = l])
    BY <1>9 DEF AnswerTokens, Redirect
  <2>2. \A b \in Browsers : cookie'[b] # NoToken => cookie'[b] = cookie[b] \/ Given(cookie[b], b)'
    BY <2>1 DEF Given
  <2>3. QED
    BY <1>2, <2>1, <2>2
<1>10. ASSUME NEW c \in SessionCalls, GenerateToken(c) PROVE TokensGiven'
  <2>1. Made(c)'
    BY <1>10 DEF GenerateToken, Made
  <2>2. redis' \cup memory' \subseteq redis \cup memory \cup {c}
    BY <1>10 DEF GenerateToken, SetWithTTL, Store, Current
  <2>3. UNCHANGED <<cookie, mind, parent, revoked>>
    BY <1>10 DEF GenerateToken
  <2>4. QED
    BY <1>2, <2>1, <2>2, <2>3
<1>11. ASSUME NEW c \in SessionCalls, RevokeOne(c) \/ RemoveFound(c) PROVE TokensGiven'
  <2>1. \E S : Revoke(S)
    BY <1>11 DEF RevokeOne, RemoveFound, Forget
  <2>2. /\ redis' \cup memory' \subseteq redis \cup memory
        /\ revoked' \subseteq revoked \cup redis \cup memory
    BY <2>1 DEF Revoke, Del, Store, Current
  <2>3. /\ \A b \in Browsers : cookie'[b] \in {NoToken, cookie[b]}
        /\ End(c, "done") \/ End(c, "failed")
        /\ parent' = parent
    BY <1>11 DEF RevokeOne, RemoveFound, Forget, Redirect, ClearCookies
  <2>4. QED
    BY <1>2, <2>2, <2>3
<1>12. ASSUME NEW c \in SessionCalls, FindTokens(c) PROVE TokensGiven'
  <2>1. CASE OnMemory
    <3>1. /\ redis' \cup memory' \subseteq redis \cup memory
          /\ revoked' \subseteq revoked \cup redis \cup memory
      BY <1>12, <2>1 DEF FindTokens, Forget, Revoke, Del, Store, Current
    <3>2. /\ \A b \in Browsers : cookie'[b] \in {NoToken, cookie[b]}
          /\ End(c, "done") \/ End(c, "failed")
          /\ parent' = parent
      BY <1>12, <2>1 DEF FindTokens, Forget, Redirect, ClearCookies
    <3>3. QED
      BY <1>2, <3>1, <3>2
  <2>2. CASE ~OnMemory
    BY <1>2, <1>12, <2>2 DEF FindTokens
  <2>3. QED
    BY <2>1, <2>2
<1>13. CASE Links \/ UNCHANGED SessionView
  BY <1>2, <1>13 DEF Links, RedisFails, RedisConnects, RedisReady, SessionView
<1> HIDE DEF SessionInv, SessionTyped, SessionTypeOK, TokensGiven, Goto, End
<1>14. QED
  BY <1>3, <1>4, <1>5, <1>6, <1>7, <1>8, <1>9, <1>10, <1>11, <1>12, <1>13, SessionSteps

\* Every command goes to the same store until the connection breaks.
LEMMA StoreSteadyInductive ==
  ASSUME StoreSteady, [SessionNext]_SessionView
  PROVE  StoreSteady'
<1> USE DEF StoreSteady, store, mind, history, sessionVars
<1>1. CASE switched
  <2>1. switched' = switched \/ switched'
    BY SessionSteps
       DEF SendRequest, Login, Logout, LogoutAll, AskRefresh, CheckToken, SpendToken,
           RenewToken, AnswerTokens, RetryRequest, GenerateToken, RevokeOne, FindTokens,
           RemoveFound, AbortSession, Links, RedisFails, RedisConnects, RedisReady, Disturbed,
           SessionView
  <2>2. QED
    BY <1>1, <2>1
<1>2. CASE ~switched
  <2>1. link = "ready" /\ ~fallback /\ ~OnMemory
    BY <1>2 DEF OnMemory
  <2>2. ASSUME NEW c \in SessionCalls,
               \/ SendRequest(c) \/ Login(c) \/ Logout(c) \/ LogoutAll(c) \/ AskRefresh(c)
               \/ CheckToken(c) \/ SpendToken(c) \/ RenewToken(c) \/ AnswerTokens(c)
               \/ RetryRequest(c) \/ GenerateToken(c) \/ RevokeOne(c) \/ FindTokens(c)
               \/ RemoveFound(c) \/ AbortSession(c)
        PROVE  link' = link /\ fallback' = FALSE
    BY <2>1, <2>2
       DEF SendRequest, Login, Logout, LogoutAll, AskRefresh, CheckToken, SpendToken,
           RenewToken, AnswerTokens, RetryRequest, GenerateToken, RevokeOne, FindTokens,
           RemoveFound, AbortSession, SetWithTTL, Del, Revoke, Forget, Store
  <2>3. CASE Links
    BY <2>3 DEF Links, RedisFails, RedisConnects, RedisReady, Disturbed
  <2>4. CASE UNCHANGED SessionView
    BY <2>1, <2>4 DEF SessionView
  <2>5. QED
    BY <2>1, <2>2, <2>3, <2>4, SessionSteps
<1>3. QED
  BY <1>1, <1>2

\* Spending, renewing and revoking in Redis.
LEMMA RotationInductive ==
  ASSUME SessionInv, [SessionNext]_SessionView
  PROVE  RotatedOnce'
<1> SUFFICES ASSUME ~switched' PROVE OneRotation'
  BY DEF RotatedOnce
<1> USE SessionAssumption, NoTokenIsNone
    DEF SessionInv, SessionTyped, SessionTypeOK, Goto, End, store, mind, history, sessionVars
<1>1. /\ ~switched /\ ~OnMemory /\ Current = redis /\ OneRotation
      /\ \A c \in SessionCalls : From[c] \in Browsers
  <2>1. ~switched
    BY SessionSteps
       DEF SendRequest, Login, Logout, LogoutAll, AskRefresh, CheckToken, SpendToken,
           RenewToken, AnswerTokens, RetryRequest, GenerateToken, RevokeOne, FindTokens,
           RemoveFound, AbortSession, Links, RedisFails, RedisConnects, RedisReady, Disturbed,
           SessionView
  <2>2. QED
    BY <2>1 DEF RotatedOnce, StoreSteady, OnMemory, Current
\* Fewer rotations, and nothing else.
<1>2. ASSUME contested \subseteq contested', redis' = redis, revoked' = revoked,
             \A t \in Tokens, c \in SessionCalls : /\ Holds(c, t)' => Holds(c, t)
                                                   /\ Spent(c, t)' => Spent(c, t)
                                                   /\ Holds(c, t)' /\ Spent(c, t) => Spent(c, t)'
      PROVE  OneRotation'
  BY <1>1, <1>2 DEF OneRotation
<1> USE DEF Holds, Spent
<1>3. ASSUME NEW c \in SessionCalls,
             \/ SendRequest(c) \/ RetryRequest(c) \/ Login(c) \/ LogoutAll(c)
             \/ AbortSession(c)
      PROVE  OneRotation'
  BY <1>2, <1>3 DEF SendRequest, RetryRequest, Login, LogoutAll, AbortSession, Redirect
<1>4. ASSUME NEW c \in SessionCalls, Logout(c) PROVE OneRotation'
  BY <1>2, <1>4 DEF Logout
<1>5. ASSUME NEW c \in SessionCalls, AskRefresh(c) PROVE OneRotation'
  BY <1>2, <1>5 DEF AskRefresh, Redirect
<1>6. ASSUME NEW c \in SessionCalls, CheckToken(c) PROVE OneRotation'
  <2>1. CASE carried[c] \notin redis
    BY <1>1, <1>2, <1>6, <2>1 DEF CheckToken, Exists
  <2>2. CASE carried[c] \in redis
    <3> SUFFICES ASSUME NEW t \in Tokens \ contested'
                 PROVE  /\ \A d, e \in SessionCalls : Holds(d, t)' /\ Holds(e, t)' => d = e
                        /\ \A d \in SessionCalls : Spent(d, t)' => t \notin redis'
                        /\ \A d \in SessionCalls : Holds(d, t)' => Spent(d, t)' \/ t \in redis'
                        /\ t \in revoked' => t \notin redis' /\ \A d \in SessionCalls : ~Holds(d, t)'
      BY DEF OneRotation
    <3>1. /\ redis' = redis /\ revoked' = revoked /\ parent' = parent /\ carried' = carried
          /\ pc' = [pc EXCEPT ![c] = "spend"] /\ t \notin contested
          /\ t = carried[c] => \A d \in SessionCalls : pc[d] = "spend" => carried[d] # t
      BY <1>1, <1>6, <2>2 DEF CheckToken, Exists, RotatedBy
    <3>2. CASE t # carried[c]
      <4>1. \A d \in SessionCalls : (Holds(d, t)' => Holds(d, t)) /\ (Spent(d, t)' <=> Spent(d, t))
        BY <1>6, <3>1, <3>2 DEF CheckToken
      <4>2. QED
        BY <1>1, <3>1, <4>1 DEF OneRotation
    <3>3. CASE t = carried[c]
      <4>1. \A d \in SessionCalls : ~Holds(d, t)
        BY <1>1, <2>2, <3>1, <3>3 DEF OneRotation
      <4>2. \A d \in SessionCalls : (Holds(d, t)' => d = c) /\ ~Spent(d, t)'
        BY <3>1, <4>1
      <4>3. t \in redis /\ t \notin revoked
        BY <1>1, <2>2, <3>1, <3>3 DEF OneRotation
      <4>4. QED
        BY <3>1, <4>2, <4>3
    <3>4. QED
      BY <3>2, <3>3
  <2>3. QED
    BY <2>1, <2>2
<1>7. ASSUME NEW c \in SessionCalls, SpendToken(c) PROVE OneRotation'
  <2>1. /\ redis' = redis \ {carried[c]} /\ pc[c] = "spend" /\ pc' = [pc EXCEPT ![c] = "renew"]
        /\ UNCHANGED <<carried, parent, revoked, contested>>
    BY <1>1, <1>7 DEF SpendToken, Del, Store
  <2>2. \A t \in Tokens, d \in SessionCalls : /\ Holds(d, t)' <=> Holds(d, t)
                                              /\ Spent(d, t) => Spent(d, t)'
                                              /\ Spent(d, t)' => Spent(d, t) \/ t = carried[c]
    BY <2>1
  <2>3. \A t \in Tokens : t = carried[c] => Holds(c, t) /\ Spent(c, t)'
    BY <2>1
  <2> HIDE DEF Holds, Spent, SessionInv, SessionTyped, SessionTypeOK
  <2>4. QED
    BY <1>1, <2>1, <2>2, <2>3 DEF OneRotation
<1>8. ASSUME NEW c \in SessionCalls, RenewToken(c) PROVE OneRotation'
  <2>1. /\ redis' = redis \cup {c} /\ pc[c] = "renew" /\ pc' = [pc EXCEPT ![c] = "answer"]
        /\ parent' = [parent EXCEPT ![c] = carried[c]]
        /\ UNCHANGED <<carried, revoked, contested>>
    BY <1>1, <1>8 DEF RenewToken, SetWithTTL, Store
  <2>2. \A t \in Tokens, d \in SessionCalls : /\ Holds(d, t)' => Holds(d, t)
                                              /\ Spent(d, t)' => Spent(d, t)
                                              /\ Holds(d, t)' /\ Spent(d, t) => Spent(d, t)'
    BY <2>1
  <2>3. \A d \in SessionCalls : ~Holds(d, c) /\ ~Spent(d, c)
    BY <2>1 DEF TokensGiven, Given
  <2>4. c \notin revoked
    BY <2>1 DEF TokensGiven, Made
  <2> HIDE DEF Holds, Spent, SessionInv, SessionTyped, SessionTypeOK
  <2>5. QED
    BY <1>1, <2>1, <2>2, <2>3, <2>4 DEF OneRotation
<1>9. ASSUME NEW c \in SessionCalls, AnswerTokens(c) PROVE OneRotation'
  BY <1>2, <1>9 DEF AnswerTokens, Redirect
<1>10. ASSUME NEW c \in SessionCalls, GenerateToken(c) PROVE OneRotation'
  <2>1. /\ redis' = redis \cup {c} /\ pc[c] = "generate" /\ pc' = [pc EXCEPT ![c] = "answer"]
        /\ UNCHANGED <<carried, parent, revoked, contested>>
    BY <1>1, <1>10 DEF GenerateToken, SetWithTTL, Store
  <2>2. \A t \in Tokens, d \in SessionCalls : (Holds(d, t)' <=> Holds(d, t))
                                              /\ (Spent(d, t)' <=> Spent(d, t))
    BY <2>1
  <2>3. \A d \in SessionCalls : ~Holds(d, c) /\ ~Spent(d, c)
    BY <2>1 DEF TokensGiven, Given
  <2>4. c \notin revoked
    BY <2>1 DEF TokensGiven, Made
  <2> HIDE DEF Holds, Spent, SessionInv, SessionTyped, SessionTypeOK
  <2>5. QED
    BY <1>1, <2>1, <2>2, <2>3, <2>4 DEF OneRotation
\* A token revoked amid its rotation is contested.
<1>11. ASSUME NEW c \in SessionCalls, NEW S, Revoke(S), End(c, "done") \/ End(c, "failed"),
              pc[c] \notin {"spend", "renew"}, parent' = parent
       PROVE  OneRotation'
  <2>1. /\ redis' = redis \ S /\ revoked' = revoked \cup (S \cap redis)
        /\ contested' = contested \cup AmidRotation(S)
    BY <1>1, <1>11 DEF Revoke, Del, Store
  <2>2. \A t \in Tokens, d \in SessionCalls : (Holds(d, t)' <=> Holds(d, t))
                                              /\ (Spent(d, t)' <=> Spent(d, t))
    BY <1>11, NoTokenIsNone DEF Tokens
  <2>3. \A t \in (S \cap Tokens) \ contested', d \in SessionCalls :
          Holds(d, t) => parent[d] = t
    BY <2>1 DEF AmidRotation
  <2>4. \A t \in Tokens, d \in SessionCalls : parent[d] = t => Spent(d, t)
    OBVIOUS
  <2> HIDE DEF Holds, Spent, SessionInv, SessionTyped, SessionTypeOK
  <2>5. QED
    BY <1>1, <2>1, <2>2, <2>3, <2>4 DEF OneRotation
<1>12. ASSUME NEW c \in SessionCalls, RevokeOne(c) \/ RemoveFound(c) PROVE OneRotation'
  <2>1. /\ \E S : Revoke(S)
        /\ End(c, "done") \/ End(c, "failed")
        /\ pc[c] \notin {"spend", "renew"} /\ parent' = parent
    BY <1>12 DEF RevokeOne, RemoveFound, Forget, Redirect
  <2>2. QED
    BY <1>11, <2>1
<1>13. ASSUME NEW c \in SessionCalls, FindTokens(c) PROVE OneRotation'
  BY <1>1, <1>2, <1>13 DEF FindTokens
<1>14. CASE Links
  BY <1>14 DEF Links, RedisFails, RedisConnects, RedisReady, Disturbed
<1>15. CASE UNCHANGED SessionView
  BY <1>2, <1>15 DEF SessionView
<1> HIDE DEF SessionInv, SessionTyped, SessionTypeOK, Goto, End, Holds, Spent
<1>16. QED
  BY <1>3, <1>4, <1>5, <1>6, <1>7, <1>8, <1>9, <1>10, <1>12, <1>13, <1>14, <1>15, SessionSteps

\* Only a login that finds the session in nobody's hands ends the trouble.
LEMMA TroubleEnds ==
  ASSUME SessionInv, [SessionNext]_SessionView, NEW b \in Browsers \ troubled', b \in troubled
  PROVE  \E c \in SessionCalls : Login(c) /\ From[c] = b /\ ~OthersAtSession(c)
<1>1. PICK c \in SessionCalls : Login(c)
  BY SessionSteps
     DEF SendRequest, Logout, LogoutAll, AskRefresh, CheckToken, SpendToken, RenewToken,
         AnswerTokens, RetryRequest, GenerateToken, RevokeOne, FindTokens, RemoveFound,
         AbortSession, Links, RedisFails, RedisConnects, RedisReady, Disturbed, Overlap,
         SessionView, history, sessionVars
<1>2. QED
  BY <1>1 DEF Login

\* A call that has the session in its hands keeps what it says of itself.
LEMMA NoTroubleBefore ==
  ASSUME SessionInv, [SessionNext]_SessionView, NEW d \in SessionCalls,
         From[d] \notin troubled', Rotating(d) \/ Signing(d)
  PROVE  From[d] \notin troubled
<1> SUFFICES ASSUME From[d] \in troubled PROVE FALSE
  OBVIOUS
<1>1. From[d] \in Browsers
  BY SessionAssumption
<1>2. PICK c \in SessionCalls : Login(c) /\ From[c] = From[d] /\ ~OthersAtSession(c)
  BY <1>1, TroubleEnds
<1>3. d # c
  BY <1>2 DEF Login, Rotating, Signing
<1>4. QED
  BY <1>2, <1>3 DEF OthersAtSession

\* A call that spends or revokes its token takes it, and nobody else's, away.
Takes(c, t) == (SpendToken(c) \/ RevokeOne(c)) /\ t = carried[c]

LEMMA SafeStays ==
  ASSUME SessionInv, [SessionNext]_SessionView, ~(\E c \in SessionCalls : FindTokens(c)), ~Links,
         NEW t \in Tokens, Safe(t)
  PROVE  Safe(t)' \/ \E c \in SessionCalls : Takes(c, t)
<1> USE SessionAssumption, NoTokenIsNone
    DEF SessionInv, SessionTyped, SessionTypeOK, Goto, End, store, mind, history, sessionVars
<1>1. ASSUME t \in Current',
             \A d \in SessionCalls : pc'[d] = "remove" => pc[d] = "remove" /\ found'[d] = found[d]
      PROVE  Safe(t)'
  BY <1>1 DEF Safe
<1>2. t \in Current
  BY DEF Safe
<1>3. ASSUME NEW c \in SessionCalls,
             \/ SendRequest(c) \/ RetryRequest(c) \/ Login(c) \/ Logout(c) \/ LogoutAll(c)
             \/ AskRefresh(c) \/ AnswerTokens(c) \/ AbortSession(c)
      PROVE  Safe(t)'
  <2>1. Current' = Current
    BY <1>3 DEF SendRequest, RetryRequest, Login, Logout, LogoutAll, AskRefresh, AnswerTokens,
                AbortSession, Current, OnMemory
  <2>2. ASSUME NEW d \in SessionCalls, pc'[d] = "remove"
        PROVE  pc[d] = "remove" /\ found'[d] = found[d]
    BY <1>3, <2>2 DEF SendRequest, RetryRequest, Login, Logout, LogoutAll, AskRefresh,
                      AnswerTokens, AbortSession, Redirect
  <2>3. QED
    BY <1>1, <1>2, <2>1, <2>2
<1>4. ASSUME NEW c \in SessionCalls, CheckToken(c) PROVE Safe(t)'
  <2>1. Current' = Current
    BY <1>4, ChecksKeepStore DEF CheckToken
  <2>2. QED
    BY <1>1, <1>2, <1>4, <2>1 DEF CheckToken
<1>5. ASSUME NEW c \in SessionCalls, RenewToken(c) \/ GenerateToken(c) PROVE Safe(t)'
  <2>1. Current' = Current \cup {c}
    BY <1>5, StoreSets DEF RenewToken, GenerateToken, SetWithTTL
  <2>2. QED
    BY <1>1, <1>2, <1>5, <2>1 DEF RenewToken, GenerateToken
<1>6. ASSUME NEW c \in SessionCalls, SpendToken(c) \/ RevokeOne(c)
      PROVE  Safe(t)' \/ Takes(c, t)
  <2>1. Current' = Current \ {carried[c]}
    BY <1>6, StoreSets DEF SpendToken, RevokeOne, Revoke, Del
  <2>2. ASSUME NEW d \in SessionCalls, pc'[d] = "remove"
        PROVE  pc[d] = "remove" /\ found'[d] = found[d]
    BY <1>6, <2>2 DEF SpendToken, RevokeOne
  <2>3. QED
    BY <1>1, <1>2, <1>6, <2>1, <2>2 DEF Takes
<1>7. ASSUME NEW c \in SessionCalls, RemoveFound(c) PROVE Safe(t)'
  <2>1. Current' = Current \ found[c] /\ pc[c] = "remove"
    BY <1>7, StoreSets DEF RemoveFound, Forget, Revoke, Del
  <2>2. ASSUME NEW d \in SessionCalls, pc'[d] = "remove"
        PROVE  pc[d] = "remove" /\ found'[d] = found[d]
    BY <1>7, <2>2 DEF RemoveFound, Forget, Redirect
  <2>3. QED
    BY <1>1, <1>2, <2>1, <2>2 DEF Safe
<1>8. CASE UNCHANGED SessionView
  BY <1>1, <1>2, <1>8 DEF SessionView, Current, OnMemory
<1> HIDE DEF SessionInv, SessionTyped, SessionTypeOK, Goto, End
<1>9. QED
  BY <1>3, <1>4, <1>5, <1>6, <1>7, <1>8, SessionSteps

\* Everybody is in trouble after these.
LEMMA AllTroubled ==
  ASSUME SessionInv, (\E c \in SessionCalls : FindTokens(c)) \/ Links
  PROVE  troubled' = Browsers
  BY DEF FindTokens, Links, RedisFails, RedisConnects, RedisReady, Disturbed

\* The token of a call is nobody else's.
LEMMA OwnToken ==
  ASSUME SessionInv, NEW c \in SessionCalls, carried[c] # NoToken
  PROVE  /\ \A b \in Browsers : cookie[b] = carried[c] => b = From[c]
         /\ \A d \in SessionCalls : carried[d] = carried[c] => From[d] = From[c]
         /\ \A d \in SessionCalls : d = carried[c] => pc[d] \in {"retry", "done", "failed"}
  BY NoTokenIsNone DEF SessionInv, TokensGiven, Given

LEMMA CookieSafeInductive ==
  ASSUME SessionInv, [SessionNext]_SessionView, NEW b \in Browsers \ troubled'
  PROVE  CookieSafe(b)'
<1> USE SessionAssumption, NoTokenIsNone
    DEF SessionInv, SessionTyped, SessionTypeOK, Goto, End, store, mind, history, sessionVars
<1>1. ~(\E c \in SessionCalls : FindTokens(c)) /\ ~Links
  BY AllTroubled
\* As long as the cookie stays and the session is not let go.
<1>2. ASSUME cookie'[b] = cookie[b], b \notin troubled, Busy(b) => Busy(b)',
             \A c \in SessionCalls :
               Takes(c, cookie[b]) /\ cookie[b] # NoToken => From[c] = b /\ Busy(b)'
      PROVE  CookieSafe(b)'
  <2>1. CookieSafe(b)
    BY <1>2 DEF Undisturbed
  <2>2. CASE cookie[b] = NoToken \/ Busy(b)
    BY <1>2, <2>2 DEF CookieSafe
  <2>3. CASE cookie[b] # NoToken /\ Safe(cookie[b])
    <3>1. PICK t \in Tokens : t = cookie[b]
      BY <2>3
    <3>2. Safe(t)' \/ \E c \in SessionCalls : Takes(c, t)
      BY <1>1, <2>3, <3>1, SafeStays
    <3>3. QED
      BY <1>2, <2>3, <3>1, <3>2 DEF CookieSafe
  <2>4. QED
    BY <2>1, <2>2, <2>3 DEF CookieSafe
<1> USE DEF Rotating, Signing, Busy
<1>3. ASSUME NEW c \in SessionCalls,
             SendRequest(c) \/ RetryRequest(c) \/ Logout(c) \/ LogoutAll(c) \/ AskRefresh(c)
      PROVE  CookieSafe(b)'
  <2>1. cookie' = cookie /\ ~(Rotating(c) \/ Signing(c)) /\ \A d \in SessionCalls \ {c} : pc'[d] = pc[d]
    BY <1>3 DEF SendRequest, RetryRequest, Logout, LogoutAll, AskRefresh, Redirect
  <2>2. b \notin troubled
    BY <1>3 DEF SendRequest, RetryRequest, Logout, LogoutAll, AskRefresh, Overlap
  <2>3. \A d \in SessionCalls : ~SpendToken(d) /\ ~RevokeOne(d)
    BY <1>3 DEF SendRequest, RetryRequest, Logout, LogoutAll, AskRefresh, SpendToken, RevokeOne,
                Redirect
  <2>4. QED
    BY <1>2, <2>1, <2>2, <2>3 DEF Takes
<1>4. ASSUME NEW c \in SessionCalls, Login(c) PROVE CookieSafe(b)'
  <2>1. cookie' = cookie /\ pc[c] = "idle" /\ pc' = [pc EXCEPT ![c] = "generate"]
    BY <1>4 DEF Login
  <2>2. CASE From[c] = b
    BY <2>1, <2>2 DEF CookieSafe
  <2>3. CASE From[c] # b
    <3>1. b \notin troubled
      BY <1>4, <2>3 DEF Login
    <3>2. \A d \in SessionCalls : ~SpendToken(d) /\ ~RevokeOne(d)
      BY <1>4 DEF Login, SpendToken, RevokeOne
    <3>3. QED
      BY <1>2, <2>1, <3>1, <3>2 DEF Takes
  <2>4. QED
    BY <2>2, <2>3
<1>5. ASSUME NEW c \in SessionCalls,
             CheckToken(c) \/ SpendToken(c) \/ RenewToken(c) \/ GenerateToken(c)
      PROVE  CookieSafe(b)'
  <2>1. /\ cookie' = cookie /\ troubled' = troubled /\ Rotating(c)
        /\ \E l \in {"spend", "find", "renew", "answer"} : pc' = [pc EXCEPT ![c] = l]
    BY <1>5 DEF CheckToken, SpendToken, RenewToken, GenerateToken
  <2>2. \A d \in SessionCalls : Rotating(d)' \/ Signing(d)' <=> Rotating(d) \/ Signing(d)
    BY <2>1
  <2>3. ASSUME NEW d \in SessionCalls, Takes(d, cookie[b]), cookie[b] # NoToken
        PROVE  From[d] = b /\ Busy(b)'
    <3>1. From[d] = b /\ carried[d] = cookie[b]
      BY <2>3, OwnToken DEF Takes
    <3>2. Rotating(d) \/ Signing(d)
      BY <2>3 DEF Takes, SpendToken, RevokeOne
    <3>3. QED
      BY <2>2, <3>1, <3>2
  <2>4. QED
    BY <1>2, <2>1, <2>2, <2>3
<1>6. ASSUME NEW c \in SessionCalls, AnswerTokens(c) PROVE CookieSafe(b)'
  <2>1. \A d \in SessionCalls \ {c} : pc'[d] = pc[d]
    BY <1>6 DEF AnswerTokens, Redirect
  <2>2. \A d \in SessionCalls : ~SpendToken(d) /\ ~RevokeOne(d)
    BY <1>6 DEF AnswerTokens, SpendToken, RevokeOne, Redirect
  <2>3. CASE From[c] = b
    <3>1. cookie'[b] = c /\ b \notin troubled /\ pc[c] = "answer"
      BY <1>6, <2>3 DEF AnswerTokens
    <3>2. Safe(c)
      BY <2>3, <3>1 DEF Undisturbed, CallSafe
    <3>3. Safe(c)'
      BY <1>1, <2>2, <3>2, SafeStays DEF Takes, Tokens
    <3>4. QED
      BY <3>1, <3>3 DEF CookieSafe
  <2>4. CASE From[c] # b
    <3>1. cookie'[b] = cookie[b] /\ b \notin troubled
      BY <1>6, <2>4 DEF AnswerTokens
    <3>2. Busy(b) => Busy(b)'
      BY <2>1, <2>4
    <3>3. QED
      BY <1>2, <2>2, <3>1, <3>2 DEF Takes
  <2>5. QED
    BY <2>3, <2>4
<1>7. ASSUME NEW c \in SessionCalls, RevokeOne(c) PROVE CookieSafe(b)'
  <2>1. /\ cookie' = [cookie EXCEPT ![From[c]] = NoToken] /\ troubled' = troubled
        /\ pc' = [pc EXCEPT ![c] = "done"] /\ pc[c] = "revoke"
    BY <1>7 DEF RevokeOne, ClearCookies
  <2>2. CASE From[c] = b
    BY <2>1, <2>2 DEF CookieSafe
  <2>3. CASE From[c] # b
    <3>1. Busy(b) => Busy(b)'
      BY <2>1, <2>3
    <3>2. \A d \in SessionCalls : SpendToken(d) \/ RevokeOne(d) => d = c
      BY <1>7, <2>1 DEF SpendToken, RevokeOne
    <3>3. cookie[b] # NoToken => ~Takes(c, cookie[b])
      BY <2>3, OwnToken DEF Takes
    <3>4. QED
      BY <1>2, <2>1, <2>3, <3>1, <3>2, <3>3 DEF Takes
  <2>4. QED
    BY <2>2, <2>3
<1>8. ASSUME NEW c \in SessionCalls, RemoveFound(c) PROVE CookieSafe(b)'
  <2>1. /\ troubled' = troubled /\ pc[c] = "remove"
        /\ \A d \in SessionCalls \ {c} : pc'[d] = pc[d]
        /\ \A a \in Browsers \ {From[c]} : cookie'[a] = cookie[a]
    BY <1>8 DEF RemoveFound, Forget, Redirect, ClearCookies
  <2>2. From[c] # b
    BY <2>1 DEF Undisturbed, CallSafe
  <2>3. \A d \in SessionCalls : ~SpendToken(d) /\ ~RevokeOne(d)
    BY <1>8 DEF RemoveFound, Forget, SpendToken, RevokeOne, Redirect
  <2>4. QED
    BY <1>2, <2>1, <2>2, <2>3 DEF Takes
<1>9. ASSUME NEW c \in SessionCalls, AbortSession(c) PROVE CookieSafe(b)'
  <2>1. /\ cookie' = cookie /\ b # From[c] /\ b \notin troubled
        /\ pc' = [pc EXCEPT ![c] = "failed"]
    BY <1>9 DEF AbortSession
  <2>2. \A d \in SessionCalls : ~SpendToken(d) /\ ~RevokeOne(d)
    BY <1>9 DEF AbortSession, SpendToken, RevokeOne
  <2>3. QED
    BY <1>2, <2>1, <2>2 DEF Takes
<1>10. CASE UNCHANGED SessionView
  <2>1. \A d \in SessionCalls : ~SpendToken(d) /\ ~RevokeOne(d)
    BY <1>10 DEF SessionView, SpendToken, RevokeOne
  <2>2. QED
    BY <1>2, <1>10, <2>1 DEF SessionView, Takes
<1> HIDE DEF SessionInv, SessionTyped, SessionTypeOK, Goto, End, Rotating, Signing, Busy
<1>11. QED
  BY <1>1, <1>3, <1>4, <1>5, <1>6, <1>7, <1>8, <1>9, <1>10, SessionSteps

\* A second call that takes the session troubles it.
LEMMA AloneInductive ==
  ASSUME SessionInv, [SessionNext]_SessionView, NEW d \in SessionCalls, From[d] \notin troubled'
  PROVE  Alone(d)'
<1> SUFFICES ASSUME NEW e \in SessionCalls \ {d}, From[d] = From[e],
                    AtSession(d)', AtSession(e)'
             PROVE  FALSE
  BY DEF Alone
<1> USE SessionAssumption, NoTokenIsNone
    DEF SessionInv, SessionTyped, SessionTypeOK, Goto, End, store, mind, history, sessionVars
\* Who has taken the session now finds it in the other's hands.
<1>1. ASSUME NEW c \in SessionCalls, NEW f \in SessionCalls \ {c}, From[c] = From[f],
             AtSession(f), Overlap(c) \/ Login(c)
      PROVE  From[c] \in troubled'
  <2>1. OthersAtSession(c)
    BY <1>1 DEF OthersAtSession, AtSession, Rotating, Signing
  <2>2. From[c] \in Browsers
    OBVIOUS
  <2>3. QED
    BY <1>1, <2>1, <2>2 DEF Overlap, Login
<1>2. ASSUME NEW c \in SessionCalls, AskRefresh(c) \/ Login(c) \/ Logout(c)
      PROVE  FALSE
  <2>1. /\ Overlap(c) \/ Login(c)
        /\ \A f \in SessionCalls \ {c} : pc'[f] = pc[f]
        /\ ~AtSession(c)
    BY <1>2 DEF AskRefresh, Login, Logout, Redirect, AtSession
  <2>2. CASE d = c
    <3>1. AtSession(e)
      BY <2>1, <2>2 DEF AtSession
    <3>2. QED
      BY <1>1, <2>1, <2>2, <3>1
  <2>3. CASE e = c
    <3>1. AtSession(d)
      BY <2>1, <2>3 DEF AtSession
    <3>2. QED
      BY <1>1, <2>1, <2>3, <3>1
  <2>4. CASE d # c /\ e # c
    <3>1. AtSession(d) /\ AtSession(e)
      BY <2>1, <2>4 DEF AtSession
    <3>2. From[d] \notin troubled
      BY <3>1, NoTroubleBefore DEF AtSession, Rotating, Signing
    <3>3. QED
      BY <3>1, <3>2 DEF Undisturbed, Alone
  <2>5. QED
    BY <2>2, <2>3, <2>4
<1>3. ASSUME \A f \in SessionCalls : AtSession(f)' => AtSession(f) PROVE FALSE
  <2>1. AtSession(d) /\ AtSession(e)
    BY <1>3
  <2>2. From[d] \notin troubled
    BY <2>1, NoTroubleBefore DEF AtSession, Rotating, Signing
  <2>3. QED
    BY <2>1, <2>2 DEF Undisturbed, Alone
<1>4. ASSUME NEW c \in SessionCalls,
             \/ SendRequest(c) \/ LogoutAll(c) \/ CheckToken(c) \/ SpendToken(c)
             \/ RenewToken(c) \/ AnswerTokens(c) \/ RetryRequest(c)
             \/ GenerateToken(c) \/ RevokeOne(c) \/ FindTokens(c) \/ RemoveFound(c)
             \/ AbortSession(c)
      PROVE  FALSE
  <2>1. \A f \in SessionCalls : AtSession(f)' => AtSession(f)
    BY <1>4
       DEF SendRequest, LogoutAll, CheckToken, SpendToken, RenewToken, AnswerTokens,
           RetryRequest, GenerateToken, RevokeOne, FindTokens, RemoveFound, AbortSession,
           Forget, Redirect, AtSession
  <2>2. QED
    BY <1>3, <2>1
<1>5. CASE Links \/ UNCHANGED SessionView
  BY <1>3, <1>5 DEF Links, RedisFails, RedisConnects, RedisReady, SessionView, AtSession
<1> HIDE DEF SessionInv, SessionTyped, SessionTypeOK, Goto, End
<1>6. QED
  BY <1>2, <1>4, <1>5, SessionSteps

\* A call keeps its token safe until it spends it.
LEMMA CallSafeInductive ==
  ASSUME SessionInv, [SessionNext]_SessionView, NEW d \in SessionCalls, From[d] \notin troubled'
  PROVE  CallSafe(d)'
<1> USE SessionAssumption, NoTokenIsNone
    DEF SessionInv, SessionTyped, SessionTypeOK, Goto, End, store, mind, history, sessionVars
<1>1. ~(\E c \in SessionCalls : FindTokens(c)) /\ ~Links /\ From[d] \in Browsers
  BY AllTroubled
\* d does not move.
<1>2. ASSUME pc'[d] = pc[d], carried'[d] = carried[d], d \in signsOut => d \in signsOut'
      PROVE  CallSafe(d)'
  <2> SUFFICES ASSUME pc[d] \in {"check", "answer", "find", "remove"} PROVE CallSafe(d)'
    BY <1>2 DEF CallSafe
  <2>1. From[d] \notin troubled
    BY NoTroubleBefore DEF Rotating
  <2>2. CallSafe(d) /\ Alone(d)
    BY <2>1 DEF Undisturbed
  <2>3. CASE pc[d] = "check"
    <3>1. PICK t \in Tokens : t = carried[d] /\ t # NoToken /\ Safe(t)
      BY <2>2, <2>3 DEF CallSafe
    <3>2. ASSUME NEW c \in SessionCalls, Takes(c, t) PROVE FALSE
      <4>1. carried[c] = carried[d] /\ carried[d] # NoToken /\ pc[c] \in {"spend", "revoke"}
        BY <3>1, <3>2 DEF Takes, SpendToken, RevokeOne
      <4>2. From[c] = From[d] /\ c # d
        BY <2>3, <4>1, OwnToken
      <4>3. AtSession(c) /\ AtSession(d)
        BY <2>3, <4>1 DEF AtSession
      <4>4. QED
        BY <2>2, <4>2, <4>3 DEF Alone
    <3>3. Safe(t)'
      BY <1>1, <3>1, <3>2, SafeStays
    <3>4. QED
      BY <1>2, <2>3, <3>1, <3>3 DEF CallSafe
  <2>4. CASE pc[d] = "answer"
    <3>1. Safe(d) /\ d \in Tokens /\ d # NoToken
      BY <2>2, <2>4 DEF CallSafe, Tokens
    <3>2. \A c \in SessionCalls : ~Takes(c, d)
      BY <2>4, <3>1, OwnToken DEF Takes
    <3>3. Safe(d)'
      BY <1>1, <3>1, <3>2, SafeStays
    <3>4. QED
      BY <1>2, <2>4, <3>3 DEF CallSafe
  <2>5. CASE pc[d] \in {"find", "remove"}
    BY <1>2, <2>2, <2>5 DEF CallSafe
  <2>6. QED
    BY <2>3, <2>4, <2>5
<1>3. CASE pc'[d] \notin {"check", "answer", "find", "remove"}
  BY <1>3 DEF CallSafe
<1>4. ASSUME NEW c \in SessionCalls,
             \/ SendRequest(c) \/ Login(c) \/ Logout(c) \/ SpendToken(c)
             \/ AnswerTokens(c) \/ RetryRequest(c) \/ RevokeOne(c)
             \/ RemoveFound(c) \/ AbortSession(c)
      PROVE  CallSafe(d)'
  <2>1. CASE d = c
    BY <1>3, <1>4, <2>1
       DEF SendRequest, Login, Logout, SpendToken, AnswerTokens, RetryRequest, RevokeOne,
           RemoveFound, AbortSession, Forget, Redirect
  <2>2. CASE d # c
    BY <1>2, <1>4, <2>2
       DEF SendRequest, Login, Logout, SpendToken, AnswerTokens, RetryRequest, RevokeOne,
           RemoveFound, AbortSession, Forget, Redirect
  <2>3. QED
    BY <2>1, <2>2
<1>5. ASSUME NEW c \in SessionCalls, LogoutAll(c) PROVE CallSafe(d)'
  <2>1. CASE d = c
    BY <1>5, <2>1 DEF LogoutAll, CallSafe
  <2>2. CASE d # c
    BY <1>2, <1>5, <2>2 DEF LogoutAll
  <2>3. QED
    BY <2>1, <2>2
<1>6. ASSUME NEW c \in SessionCalls, AskRefresh(c) PROVE CallSafe(d)'
  <2>1. CASE d = c
    <3>1. CASE cookie[From[c]] = NoToken
      BY <1>3, <1>6, <2>1, <3>1 DEF AskRefresh, Redirect, TokenSent
    <3>2. CASE cookie[From[c]] # NoToken
      <4>1. PICK t \in Tokens : t = cookie[From[c]]
        BY <3>2
      <4>2. /\ ~OthersAtSession(c) /\ From[c] \notin troubled
            /\ pc[c] = "unauthorised"
            /\ pc' = [pc EXCEPT ![c] = "check"] /\ carried' = [carried EXCEPT ![c] = t]
        BY <1>1, <1>6, <2>1, <3>2, <4>1 DEF AskRefresh, Overlap, TokenSent
      <4>3. ~Busy(From[c])
        BY <4>2 DEF OthersAtSession, Busy, Rotating, Signing
      <4>4. Safe(t)
        BY <1>1, <2>1, <3>2, <4>1, <4>2, <4>3 DEF Undisturbed, CookieSafe
      <4>5. \A e \in SessionCalls : ~SpendToken(e) /\ ~RevokeOne(e)
        BY <4>2 DEF SpendToken, RevokeOne
      <4>6. Safe(t)'
        BY <1>1, <4>4, <4>5, SafeStays DEF Takes
      <4>7. QED
        BY <2>1, <3>2, <4>1, <4>2, <4>6 DEF CallSafe
    <3>3. QED
      BY <3>1, <3>2
  <2>2. CASE d # c
    BY <1>2, <1>6, <2>2 DEF AskRefresh, Redirect
  <2>3. QED
    BY <2>1, <2>2
<1>7. ASSUME NEW c \in SessionCalls, CheckToken(c) PROVE CallSafe(d)'
  <2>1. CASE d = c
    <3>1. pc[c] = "check" /\ From[c] \notin troubled
      BY <1>7, <2>1 DEF CheckToken
    <3>2. carried[c] \in Current
      BY <3>1 DEF Undisturbed, CallSafe, Safe
    <3>3. QED
      BY <1>3, <1>7, <2>1, <3>2 DEF CheckToken, Exists
  <2>2. CASE d # c
    BY <1>2, <1>7, <2>2 DEF CheckToken
  <2>3. QED
    BY <2>1, <2>2
<1>8. ASSUME NEW c \in SessionCalls, RenewToken(c) \/ GenerateToken(c) PROVE CallSafe(d)'
  <2>1. CASE d = c
    <3>1. Current' = Current \cup {c} /\ pc' = [pc EXCEPT ![c] = "answer"] /\ found' = found
          /\ pc[c] \in {"renew", "generate"}
      BY <1>8, StoreSets DEF RenewToken, GenerateToken, SetWithTTL
    <3>2. \A e \in SessionCalls : c \notin found[e]
      BY <3>1 DEF TokensGiven, Made
    <3>3. Safe(c)'
      BY <3>1, <3>2 DEF Safe
    <3>4. QED
      BY <2>1, <3>1, <3>3 DEF CallSafe
  <2>2. CASE d # c
    BY <1>2, <1>8, <2>2 DEF RenewToken, GenerateToken
  <2>3. QED
    BY <2>1, <2>2
<1>9. CASE UNCHANGED SessionView
  BY <1>2, <1>9 DEF SessionView
<1> HIDE DEF SessionInv, SessionTyped, SessionTypeOK, Goto, End
<1>10. QED
  BY <1>1, <1>4, <1>5, <1>6, <1>7, <1>8, <1>9, SessionSteps

\* The invariant holds in every reachable state.
LEMMA SessionInductive == SessionInv /\ [SessionNext]_SessionView => SessionInv'
<1> SUFFICES ASSUME SessionInv, [SessionNext]_SessionView PROVE SessionInv'
  OBVIOUS
<1>1. Undisturbed'
  BY CookieSafeInductive, CallSafeInductive, AloneInductive DEF Undisturbed
<1>2. StoreSteady'
  BY StoreSteadyInductive DEF SessionInv
<1>3. QED
  BY <1>1, <1>2, SessionTypeInductive, TokensInductive, RotationInductive DEF SessionInv

LEMMA SessionInvariant == SessionSpec => []SessionInv
  BY SessionInitInv, SessionInductive, PTL DEF SessionSpec, SessionView

\* The stores, the cookies and the calls of the sessions hold values of their
\* types.
THEOREM SessionTypeCorrect == SessionSpec => []SessionTypeOK
<1>1. SessionInv => SessionTypeOK
  BY DEF SessionInv, SessionTyped
<1>2. QED
  BY SessionInvariant, <1>1, PTL

\* rotateRefreshToken (token.service.ts) spends a token once and a revoked one
\* never, for any number of browsers and requests, until Redis is lost; the
\* exception is a token checked or revoked between a check and its removal.
THEOREM TokensAreSpentOnce == SessionSpec => []SpentOnce
<1>1. SessionInv => SpentOnce
  <2> SUFFICES ASSUME SessionInv, ~switched, NEW t \in Tokens \ contested
               PROVE  Cardinality({c \in SessionCalls : parent[c] = t})
                        <= IF t \in revoked THEN 0 ELSE 1
    BY DEF SpentOnce
  <2> DEFINE S == {c \in SessionCalls : parent[c] = t}
  <2>1. CASE S = {}
    BY <2>1, FS_EmptySet
  <2>2. CASE S # {}
    <3>1. PICK c \in S : TRUE
      BY <2>2
    <3>2. S = {c} /\ t \notin revoked
      BY <3>1 DEF SessionInv, RotatedOnce, OneRotation, Holds
    <3>3. QED
      BY <3>2, FS_Singleton
  <2>3. QED
    BY <2>1, <2>2
<1>2. QED
  BY SessionInvariant, <1>1, PTL

\* A browser keeps its session through refresh, login and logout (auth.service.ts,
\* token.service.ts, lib/api-client.ts), and nobody is taken for a thief, for any number
\* of browsers and requests: unless its own requests overlap, an answer is lost,
\* Redis is lost, the account is refused or everybody is signed out.
THEOREM SessionsAreKept == SessionSpec => []SessionKept
<1>1. SessionInv => SessionKept
  <2> SUFFICES ASSUME SessionInv
               PROVE  /\ \A b \in Browsers \ troubled :
                           cookie[b] = NoToken \/ cookie[b] \in Current \/ Busy(b)
                      /\ \A c \in SessionCalls \ signsOut :
                           pc[c] = "find" => From[c] \in troubled
    BY DEF SessionKept, Busy
  <2>1. QED
    BY DEF SessionInv, Undisturbed, CookieSafe, CallSafe, Safe
<1>2. QED
  BY SessionInvariant, <1>1, PTL
=============================================================================
