---------------------------- MODULE AuthSession -----------------------------
(***************************************************************************)
(* A signed-in extension and the policy server's refresh sessions:         *)
(* browser-extension/backend/service-worker/dambi-auth (client.ts and      *)
(* tokenStore.ts, with the sign-in messages of index.ts) against           *)
(* POST /auth/refresh (auth/oauth.rs) and rotate_refresh_session           *)
(* (db/src/stores/postgres.rs).                                            *)
(*                                                                         *)
(* Tokens are numbered as they are issued; number n stands for the access  *)
(* and the refresh token issued together.  Every API request of the        *)
(* extension runs by itself: it is cut where it awaits the server, and     *)
(* nothing keeps two of them from refreshing at once.  A dashboard page    *)
(* keeps a copy of the tokens, refreshes by itself and sends what it has.  *)
(***************************************************************************)
EXTENDS Integers, FiniteSets

CONSTANTS
    Requests,   \* API requests of the extension that may overlap
    MaxTokens   \* bound on the token pairs issued

VARIABLES
    issued,    \* server: how many pairs were issued
    login,     \* server: the login (its first pair) a pair descends from, 0 if access only
    parent,    \* server: the pair a pair replaced, 0 for a login's first
    revoked,   \* server: refresh sessions with revoked_at set
    expired,   \* refresh tokens whose 30 days are over
    access,    \* client: stored access token, 0 for none
    refresh,   \* client: stored refresh token, 0 for none
    notified,  \* client: notifiedExpired
    signing,   \* client: a sign-in window is open
    copied,    \* dashboard: pairs a page may have copied or been granted
    req,       \* client: the requests
    fired,     \* history: session-expired notices since tokens were last stored
    disturbed  \* history: refreshes or pages overlapped, an answer or the worker was lost

serverVars == <<issued, login, parent, revoked>>
tokenVars == <<access, refresh>>
vars == <<issued, login, parent, revoked, expired, access, refresh, notified,
          signing, copied, req, fired, disturbed>>

Tokens == 1 .. MaxTokens
Pcs == {"idle", "sent", "denied", "refreshing", "granted", "refused", "retry"}
Req == [pc : Pcs, token : 0 .. MaxTokens]
Set(r, pc, t) == req' = [req EXCEPT ![r] = [pc |-> pc, token |-> t]]

Live(t) == t \in 1 .. issued /\ t \notin revoked /\ t \notin expired
Refreshing(r) == req[r].pc \in {"refreshing", "granted", "refused"}

\* issue_with_claims and the INSERT into refresh_sessions.
Issue(l, p) ==
    /\ issued < MaxTokens
    /\ issued' = issued + 1
    /\ login' = [login EXCEPT ![issued + 1] = IF p = 0 THEN issued + 1 ELSE l]
    /\ parent' = [parent EXCEPT ![issued + 1] = p]

\* setTokens: storage and caches; chrome.storage answers in order, so a call takes
\* effect when its promise resolves.
SetTokens(a, r) ==
    /\ access' = a /\ refresh' = r
    /\ fired' = IF a = 0 THEN fired ELSE 0
    /\ copied' = copied \cup ({a, r} \ {0})

(***************************************************************************)
(* request() and refreshAccessToken().                                     *)
(***************************************************************************)
Send(r) ==
    /\ req[r].pc = "idle"
    /\ Set(r, "sent", access)
    /\ UNCHANGED <<serverVars, expired, tokenVars, notified, fired, disturbed, signing, copied>>

\* The server answers: with a 401 if there is no access token or its hour is over,
\* which it may be at any time.  A 401 to the retry is handed on.
Answer(r) ==
    /\ \/ req[r].pc = "sent" /\ Set(r, "denied", 0)
       \/ req[r].pc = "sent" /\ req[r].token # 0 /\ Set(r, "idle", 0)
       \/ req[r].pc = "retry" /\ Set(r, "idle", 0)
    /\ UNCHANGED <<serverVars, expired, tokenVars, notified, fired, disturbed, signing, copied>>

\* On a 401: read the refresh token and post it.
PostRefresh(r) ==
    /\ req[r].pc = "denied"
    /\ IF refresh = 0 THEN Set(r, "idle", 0) ELSE Set(r, "refreshing", refresh)
    /\ disturbed' = (disturbed \/ (refresh # 0 /\ \E q \in Requests \ {r} : Refreshing(q)))
    /\ UNCHANGED <<serverVars, expired, tokenVars, notified, fired, signing, copied>>

\* rotate_refresh_session: one transaction whose UPDATE matches only a session that
\* is not revoked and not expired.
Rotate(r) ==
    LET old == req[r].token IN
    /\ req[r].pc = "refreshing"
    /\ \/ /\ Live(old)
          /\ revoked' = revoked \cup {old}
          /\ Issue(login[old], old)
          /\ Set(r, "granted", issued + 1)
       \/ /\ ~Live(old)
          /\ Set(r, "refused", old)
          /\ UNCHANGED serverVars
    /\ UNCHANGED <<expired, tokenVars, notified, fired, disturbed, signing, copied>>

\* The database fails: a 500, and nothing is rotated.
ServerError(r) ==
    /\ req[r].pc = "refreshing"
    /\ Set(r, "refused", req[r].token)
    /\ UNCHANGED <<serverVars, expired, tokenVars, notified, signing, fired, disturbed, copied>>

\* The new pair is stored and the request retried with it.
Granted(r) ==
    /\ req[r].pc = "granted"
    /\ SetTokens(req[r].token, req[r].token)
    /\ notified' = FALSE
    /\ Set(r, "retry", req[r].token)
    /\ UNCHANGED <<serverVars, expired, disturbed, signing>>

\* Any answer but a success, or a pair that cannot be stored: the tokens are
\* dropped, whatever they are by now, and the notice is shown unless one was since
\* tokens were last stored.
Refused(r) ==
    /\ req[r].pc \in {"refused", "granted"}
    /\ access' = 0 /\ refresh' = 0
    /\ fired' = IF notified THEN fired ELSE fired + 1
    /\ notified' = TRUE
    /\ Set(r, "idle", 0)
    /\ UNCHANGED <<serverVars, expired, disturbed, signing, copied>>

\* fetch rejects: before or after the server rotated, the client cannot tell.
Lost(r) ==
    /\ Refreshing(r)
    /\ Set(r, "idle", 0)
    /\ disturbed' = TRUE
    /\ UNCHANGED <<serverVars, expired, tokenVars, notified, fired, signing, copied>>

(***************************************************************************)
(* Sign-in, sign-out, token mirroring from the dashboard, worker restarts. *)
(***************************************************************************)
SignIn ==
    /\ access' = 0 /\ refresh' = 0 /\ signing' = TRUE
    /\ disturbed' = (disturbed \/ \E r \in Requests : Refreshing(r))
    /\ UNCHANGED <<serverVars, expired, notified, req, fired, copied>>

\* The window closes: with a new login's tokens, or without.
SignedIn ==
    /\ signing /\ signing' = FALSE
    /\ \/ /\ Issue(0, 0)
          /\ SetTokens(issued + 1, issued + 1)
          /\ notified' = FALSE
          /\ UNCHANGED revoked
       \/ UNCHANGED <<serverVars, tokenVars, notified, fired, copied>>
    /\ disturbed' = (disturbed \/ \E r \in Requests : Refreshing(r))
    /\ UNCHANGED <<expired, req>>

SignOut ==
    /\ access # 0
    /\ access' = 0 /\ refresh' = 0
    /\ disturbed' = (disturbed \/ \E r \in Requests : Refreshing(r))
    /\ UNCHANGED <<serverVars, expired, notified, signing, req, fired, copied>>

\* dambi-auth-sync-tokens: a page's own login is access-only; otherwise the page
\* sends the pair it holds, which may be an old one, or parts of two.
Mirror ==
    \/ /\ issued < MaxTokens
       /\ issued' = issued + 1
       /\ revoked' = revoked \cup {issued + 1}
       /\ SetTokens(issued + 1, 0)
       /\ notified' = FALSE
       /\ disturbed' = (disturbed \/ \E r \in Requests : Refreshing(r))
       /\ UNCHANGED <<login, parent, expired, req, signing>>
    \/ \E a \in copied, t \in {c \in copied : login[c] # 0} \cup {0} :
       /\ SetTokens(a, t)
       /\ notified' = FALSE
       /\ disturbed' = (disturbed \/ t \notin {0, refresh} \/ \E r \in Requests : Refreshing(r))
       /\ UNCHANGED <<serverVars, expired, req, signing>>

\* The page refreshes with the token it holds; it sends the new pair on, if it lives.
\* A refusal clears its copy and sends nulls: SignOut.
PageRefresh ==
    \E t \in copied :
        /\ Live(t)
        /\ revoked' = revoked \cup {t}
        /\ Issue(login[t], t)
        /\ copied' = copied \cup {issued + 1}
        /\ disturbed' = TRUE
        /\ UNCHANGED <<expired, tokenVars, notified, signing, req, fired>>

\* The service worker is stopped: its requests and its guard are gone.
Restart ==
    /\ req' = [r \in Requests |-> [pc |-> "idle", token |-> 0]]
    /\ notified' = FALSE /\ signing' = FALSE /\ fired' = 0
    /\ disturbed' = (disturbed \/ \E r \in Requests : Refreshing(r))
    /\ UNCHANGED <<serverVars, expired, tokenVars, copied>>

RefreshExpires(t) ==
    /\ Live(t)
    /\ expired' = expired \cup {t}
    /\ UNCHANGED <<serverVars, tokenVars, notified, req, fired, disturbed, signing, copied>>

Init ==
    /\ issued = 0
    /\ login = [t \in Tokens |-> 0] /\ parent = [t \in Tokens |-> 0]
    /\ revoked = {} /\ expired = {}
    /\ access = 0 /\ refresh = 0 /\ copied = {}
    /\ notified = FALSE /\ signing = FALSE /\ fired = 0 /\ disturbed = FALSE
    /\ req = [r \in Requests |-> [pc |-> "idle", token |-> 0]]

Next ==
    \/ \E r \in Requests : Send(r) \/ Answer(r) \/ PostRefresh(r) \/ Rotate(r)
                           \/ ServerError(r) \/ Granted(r) \/ Refused(r) \/ Lost(r)
    \/ SignIn \/ SignedIn \/ SignOut \/ Mirror \/ PageRefresh \/ Restart
    \/ \E t \in Tokens : RefreshExpires(t)

Spec == Init /\ [][Next]_vars

-----------------------------------------------------------------------------
\* rotate_refresh_session: "replayed old refresh tokens fail after the first
\* successful rotation" (postgres.rs:554): however many requests post the same
\* refresh token, one of them gets a successor, and a login has one live session.
OneLiveSession ==
    \A s, t \in 1 .. issued :
        /\ parent[s] # 0 /\ parent[s] = parent[t] => s = t
        /\ Live(s) /\ Live(t) /\ login[s] = login[t] => s = t

\* notifiedExpired (client.ts:146): refused refreshes of a burst of 401s show one
\* notice per change from signed in to signed out.
NoticeOnce == fired <= 1

\* As long as no two refreshes overlap, no answer is lost and no page sends an old
\* pair or refreshes by itself, the stored refresh token is one the server still takes,
\* until its time is over: rotation on the server and storing on the client stay in step.
SessionKept ==
    ~disturbed /\ refresh # 0 /\ refresh \notin expired
        => Live(refresh) \/ \E r \in Requests : req[r].pc = "granted"
=============================================================================
