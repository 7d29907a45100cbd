------------------------------ MODULE Sessions ------------------------------
(***************************************************************************)
(* Logging in to the dashboard, its sessions and its pages.                *)
(*                                                                         *)
(*   src/internal/dashboard/oidc.go     OIDCMiddleware                     *)
(*   src/internal/dashboard/server.go   handler and the pages it protects  *)
(*                                                                         *)
(* A login is a random state handed to the browser; the browser comes back *)
(* with it in a callback, possibly twice (a reload, a retry), and the      *)
(* callbacks run concurrently with each other and with page requests.      *)
(* States and sessions share one map but never a key: a state's key has    *)
(* the prefix "state:". Sessions are named after the callback that made    *)
(* them; each is one browser's cookie.                                     *)
(***************************************************************************)
EXTENDS Integers, FiniteSets

CONSTANTS
    Logins,       \* the random states, one for each handleLogin
    Callbacks,    \* requests to /auth/callback, and the session each may make
    Requests      \* page requests

ASSUME SessionConstants == Logins # {} /\ Callbacks # {}

VARIABLES
    discovered,   \* the provider's endpoints are known
    states,       \* the map's "state:" entries
    callback,     \* the handler of each callback
    sessions,     \* the map's session entries
    request       \* the handler of each page request

sessionVars == <<discovered, states, callback, sessions, request>>

CallbackRec == [pc : {"idle", "exchange", "userinfo", "done", "refused"}, login : Logins]
RequestRec == [pc : {"idle", "loaded", "served", "login"}, cookie : Callbacks]

SessionTypeOK ==
    /\ discovered \in BOOLEAN
    /\ states \in [Logins -> {"unused", "stored", "stale", "taken"}]
    /\ callback \in [Callbacks -> CallbackRec]
    /\ sessions \in [Callbacks -> {"none", "live", "expired", "deleted"}]
    /\ request \in [Requests -> RequestRec]

SessionInit ==
    /\ discovered = FALSE
    /\ states = [l \in Logins |-> "unused"]
    /\ callback = [c \in Callbacks |-> [pc |-> "idle", login |-> CHOOSE l \in Logins : TRUE]]
    /\ sessions = [c \in Callbacks |-> "none"]
    /\ request = [q \in Requests |-> [pc |-> "idle", cookie |-> CHOOSE c \in Callbacks : TRUE]]

-----------------------------------------------------------------------------
(* Login.                                                                  *)

\* discover, under its mutex: what failed is tried again by the next login.
Discover ==
    /\ ~discovered /\ discovered' = TRUE
    /\ UNCHANGED <<states, callback, sessions, request>>

handleLogin(l) ==
    /\ discovered /\ states[l] = "unused"
    /\ states' = [states EXCEPT ![l] = "stored"]
    /\ UNCHANGED <<discovered, callback, sessions, request>>

\* Ten minutes pass. Nothing removes the entry.
StateExpires(l) ==
    /\ states[l] = "stored"
    /\ states' = [states EXCEPT ![l] = "stale"]
    /\ UNCHANGED <<discovered, callback, sessions, request>>

\* Mutant: the state stays in the map.
LoadState(c, l) ==
    /\ callback[c].pc = "idle" /\ states[l] # "unused"
    /\ callback' = [callback EXCEPT ![c] =
         [pc |-> IF states[l] = "stored" THEN "exchange" ELSE "refused", login |-> l]]
    /\ UNCHANGED <<discovered, states, sessions, request>>

\* handleCallback up to the exchange: LoadAndDelete, and the state's age. An
\* error parameter or a missing code ends it before it takes the state.
handleCallback(c, l) ==
    /\ callback[c].pc = "idle" /\ states[l] # "unused"
    /\ callback' = [callback EXCEPT ![c] =
         [pc |-> IF states[l] = "stored" THEN "exchange" ELSE "refused", login |-> l]]
    /\ states' = [states EXCEPT ![l] = "taken"]
    /\ UNCHANGED <<discovered, sessions, request>>

CallbackRefused(c, l) ==
    /\ callback[c].pc = "idle" /\ states[l] # "unused"
    /\ callback' = [callback EXCEPT ![c] = [pc |-> "refused", login |-> l]]
    /\ UNCHANGED <<discovered, states, sessions, request>>

exchangeCode(c, ok) ==
    /\ callback[c].pc = "exchange"
    /\ callback' = [callback EXCEPT ![c].pc = IF ok THEN "userinfo" ELSE "refused"]
    /\ UNCHANGED <<discovered, states, sessions, request>>

\* getUserInfo, and the session.
getUserInfo(c, ok) ==
    /\ callback[c].pc = "userinfo"
    /\ callback' = [callback EXCEPT ![c].pc = IF ok THEN "done" ELSE "refused"]
    /\ sessions' = [sessions EXCEPT ![c] = IF ok THEN "live" ELSE @]
    /\ UNCHANGED <<discovered, states, request>>

-----------------------------------------------------------------------------
(* Sessions.                                                               *)

SessionExpires(c) ==
    /\ sessions[c] = "live"
    /\ sessions' = [sessions EXCEPT ![c] = "expired"]
    /\ UNCHANGED <<discovered, states, callback, request>>

handleLogout(c) ==
    /\ sessions[c] # "none"
    /\ sessions' = [sessions EXCEPT ![c] = "deleted"]
    /\ UNCHANGED <<discovered, states, callback, request>>

\* Wrap and getSession: the session is looked up and its age checked. An
\* expired one is deleted. Static files and /healthz need no session.
getSession(q, c) ==
    /\ request[q].pc = "idle" /\ sessions[c] # "none"
    /\ request' = [request EXCEPT ![q] =
         [pc |-> IF sessions[c] = "live" THEN "loaded" ELSE "login", cookie |-> c]]
    /\ sessions' = [sessions EXCEPT ![c] = IF @ = "expired" THEN "deleted" ELSE @]
    /\ UNCHANGED <<discovered, states, callback>>

\* The page's handler, after the check; the session may be gone by now.
ServePage(q) ==
    /\ request[q].pc = "loaded"
    /\ request' = [request EXCEPT ![q].pc = "served"]
    /\ UNCHANGED <<discovered, states, callback, sessions>>

NextRequest(q) ==
    /\ request[q].pc \in {"served", "login"}
    /\ request' = [request EXCEPT ![q].pc = "idle"]
    /\ UNCHANGED <<discovered, states, callback, sessions>>

SessionNext ==
    \/ Discover
    \/ \E l \in Logins : handleLogin(l)
    \/ \E l \in Logins : StateExpires(l)
    \/ \E c \in Callbacks, l \in Logins : handleCallback(c, l)
    \/ \E c \in Callbacks, l \in Logins : CallbackRefused(c, l)
    \/ \E c \in Callbacks, ok \in BOOLEAN : exchangeCode(c, ok)
    \/ \E c \in Callbacks, ok \in BOOLEAN : getUserInfo(c, ok)
    \/ \E c \in Callbacks : SessionExpires(c)
    \/ \E c \in Callbacks : handleLogout(c)
    \/ \E q \in Requests, c \in Callbacks : getSession(q, c)
    \/ \E q \in Requests : ServePage(q)
    \/ \E q \in Requests : NextRequest(q)

SessionSpec == SessionInit /\ [][SessionNext]_sessionVars

-----------------------------------------------------------------------------
Accepted == {"exchange", "userinfo", "done"}

(* Why a login makes one session: a callback that was let through has      *)
(* taken its state out of the map, and is the only one that did.           *)
SessionInv ==
    /\ SessionTypeOK
    /\ \A c \in Callbacks :
         callback[c].pc \in Accepted => states[callback[c].login] = "taken"
    /\ \A c, d \in Callbacks :
         callback[c].pc \in Accepted /\ callback[d].pc \in Accepted
           /\ callback[c].login = callback[d].login => c = d
    /\ \A c \in Callbacks : sessions[c] # "none" => callback[c].pc = "done"

(* A session lives once. A login makes at most one, however many callbacks *)
(* come back with its state and however they interleave: LoadAndDelete     *)
(* lets one of them through, and a callback that fails later does not give *)
(* it back. Once a session has ended, by logout or by age, it never comes  *)
(* back, and no request that arrives afterwards is let in with its cookie: *)
(* only a request that was already past the check is still served.         *)
SessionLivesOnce ==
    [][/\ \A c, d \in Callbacks :
            c # d /\ callback'[c].login = callback'[d].login
              => ~({callback'[c].pc, callback'[d].pc} \subseteq Accepted)
       /\ \A c \in Callbacks :
            sessions[c] \in {"expired", "deleted"} => sessions'[c] \in {"expired", "deleted"}
       /\ \A q \in Requests :
            request[q].pc = "idle" /\ request'[q].pc = "loaded"
              => sessions[request'[q].cookie] = "live"]_sessionVars

=============================================================================
