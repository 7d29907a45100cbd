---------------------------- MODULE ClientProofs ----------------------------
(***************************************************************************)
(* The operator and its clients. What is handed out once and used by       *)
(* several: the state of a login and the session it makes, the refresh     *)
(* token in the command line's file, the leases of a run in Vault. And     *)
(* what the operator sends to a model service.                             *)
(***************************************************************************)
EXTENDS Sessions, TokenCache, Credentials, Provider, CountingProofs

-----------------------------------------------------------------------------
(* Sessions.                                                               *)

\* The types, one by one.
LEMMA SessionTypes ==
    ASSUME SessionTypeOK
    PROVE  /\ callback \in [Callbacks -> CallbackRec] /\ request \in [Requests -> RequestRec]
           /\ states \in [Logins -> {"unused", "stored", "stale", "taken"}]
           /\ sessions \in [Callbacks -> {"none", "live", "expired", "deleted"}]
           /\ \A c \in Callbacks : callback[c] \in CallbackRec /\ callback[c].login \in Logins
           /\ \A q \in Requests : request[q] \in RequestRec
  BY DEF SessionTypeOK, CallbackRec

\* The initial state satisfies the invariant.
LEMMA SessionInvInit == SessionInit => SessionInv
<1> SUFFICES ASSUME SessionInit PROVE SessionInv
  OBVIOUS
<1>1. PICK l \in Logins : l = CHOOSE x \in Logins : TRUE
  BY SessionConstants
<1>2. PICK k \in Callbacks : k = CHOOSE x \in Callbacks : TRUE
  BY SessionConstants
<1>3. /\ callback \in [Callbacks -> CallbackRec]
      /\ \A c \in Callbacks : callback[c].pc = "idle"
  BY <1>1 DEF SessionInit, CallbackRec
<1>4. request \in [Requests -> RequestRec]
  BY <1>2 DEF SessionInit, RequestRec
<1>5. /\ states \in [Logins -> {"unused", "stored", "stale", "taken"}]
      /\ sessions \in [Callbacks -> {"none", "live", "expired", "deleted"}]
      /\ \A c \in Callbacks : sessions[c] = "none"
  BY DEF SessionInit
<1> QED
  BY <1>3, <1>4, <1>5 DEF SessionInit, SessionInv, SessionTypeOK, Accepted

\* A callback that goes on keeps its login, and leaves the others alone.
LEMMA CallbackGoes ==
    ASSUME SessionTypeOK, NEW c \in Callbacks,
           NEW pc \in {"idle", "exchange", "userinfo", "done", "refused"},
           callback' = [callback EXCEPT ![c].pc = pc]
    PROVE  /\ callback' \in [Callbacks -> CallbackRec]
           /\ callback'[c].pc = pc /\ callback'[c].login = callback[c].login
           /\ \A d \in Callbacks \ {c} : callback'[d] = callback[d]
<1> DEFINE new == [callback[c] EXCEPT !.pc = pc]
<1>1. new \in CallbackRec /\ new.pc = pc /\ new.login = callback[c].login
  BY SessionTypes DEF CallbackRec
<1>2. callback' = [callback EXCEPT ![c] = new]
  OBVIOUS
<1> HIDE DEF new
<1> QED
  BY <1>1, <1>2, SessionTypes

\* A callback that takes a state, or is refused, says so.
LEMMA CallbackTakes ==
    ASSUME SessionTypeOK, NEW c \in Callbacks, NEW l \in Logins,
           NEW pc \in {"exchange", "refused"},
           callback' = [callback EXCEPT ![c] = [pc |-> pc, login |-> l]]
    PROVE  /\ callback' \in [Callbacks -> CallbackRec]
           /\ callback'[c].pc = pc /\ callback'[c].login = l
           /\ \A d \in Callbacks \ {c} : callback'[d] = callback[d]
<1> DEFINE new == [pc |-> pc, login |-> l]
<1>1. new \in CallbackRec /\ new.pc = pc /\ new.login = l
  BY DEF CallbackRec
<1> HIDE DEF new
<1>2. callback' = [callback EXCEPT ![c] = new]
  BY DEF new
<1> QED
  BY <1>1, <1>2, SessionTypes

\* Every step preserves the invariant, and is one that SessionLivesOnce allows.
LEMMA SessionStep ==
    ASSUME SessionInv, SessionNext
    PROVE  /\ SessionInv'
           /\ \A c \in Callbacks :
                sessions[c] \in {"expired", "deleted"} => sessions'[c] \in {"expired", "deleted"}
           /\ \A q \in Requests :
                request[q].pc = "idle" /\ request'[q].pc = "loaded"
                  => sessions[request'[q].cookie] = "live"
<1> DEFINE Goal == /\ SessionInv'
                   /\ \A c \in Callbacks :
                        sessions[c] \in {"expired", "deleted"}
                          => sessions'[c] \in {"expired", "deleted"}
                   /\ \A q \in Requests :
                        request[q].pc = "idle" /\ request'[q].pc = "loaded"
                          => sessions[request'[q].cookie] = "live"
<1> USE DEF Accepted
<1>0. /\ SessionTypeOK
      /\ \A c \in Callbacks :
           callback[c].pc \in Accepted => states[callback[c].login] = "taken"
      /\ \A c, d \in Callbacks :
           callback[c].pc \in Accepted /\ callback[d].pc \in Accepted
             /\ callback[c].login = callback[d].login => c = d
      /\ \A c \in Callbacks : sessions[c] # "none" => callback[c].pc = "done"
      /\ callback \in [Callbacks -> CallbackRec] /\ request \in [Requests -> RequestRec]
      /\ states \in [Logins -> {"unused", "stored", "stale", "taken"}]
      /\ sessions \in [Callbacks -> {"none", "live", "expired", "deleted"}]
      /\ \A c \in Callbacks : callback[c].login \in Logins
  BY SessionTypes DEF SessionInv
<1>1. ASSUME Discover PROVE Goal
  BY <1>0, <1>1 DEF Discover, SessionInv, SessionTypeOK
<1>2. ASSUME NEW l \in Logins, handleLogin(l) \/ StateExpires(l)
      PROVE  Goal
  <2>1. /\ states' \in [Logins -> {"unused", "stored", "stale", "taken"}]
        /\ \A k \in Logins : states[k] = "taken" => states'[k] = "taken"
        /\ UNCHANGED <<discovered, callback, sessions, request>>
    BY <1>0, <1>2 DEF handleLogin, StateExpires
  <2> QED
    BY <1>0, <2>1 DEF SessionInv, SessionTypeOK
<1>3. ASSUME NEW c \in Callbacks, NEW l \in Logins, handleCallback(c, l)
      PROVE  Goal
  <2> DEFINE pc == IF states[l] = "stored" THEN "exchange" ELSE "refused"
  <2>1. pc \in {"exchange", "refused"} /\ (pc = "exchange" => states[l] = "stored")
    OBVIOUS
  <2>2. /\ callback' = [callback EXCEPT ![c] = [pc |-> pc, login |-> l]]
        /\ states' = [states EXCEPT ![l] = "taken"]
        /\ UNCHANGED <<discovered, sessions, request>> /\ callback[c].pc = "idle"
    BY <1>3 DEF handleCallback
  <2> HIDE DEF pc
  <2>3. /\ callback' \in [Callbacks -> CallbackRec]
        /\ callback'[c].pc = pc /\ callback'[c].login = l
        /\ \A d \in Callbacks \ {c} : callback'[d] = callback[d]
    BY <1>0, <2>1, <2>2, CallbackTakes
  <2>4. /\ states' \in [Logins -> {"unused", "stored", "stale", "taken"}]
        /\ states'[l] = "taken"
        /\ \A k \in Logins : states[k] = "taken" => states'[k] = "taken"
    BY <1>0, <2>2
  <2>5. \A d \in Callbacks : callback'[d].pc \in Accepted
                               => states'[callback'[d].login] = "taken"
    BY <1>0, <2>3, <2>4
  <2>6. \A d, e \in Callbacks :
          callback'[d].pc \in Accepted /\ callback'[e].pc \in Accepted
            /\ callback'[d].login = callback'[e].login => d = e
    BY <1>0, <2>1, <2>3
  <2>7. \A d \in Callbacks : sessions'[d] # "none" => callback'[d].pc = "done"
    BY <1>0, <2>2, <2>3
  <2> QED
    BY <1>0, <2>2, <2>3, <2>4, <2>5, <2>6, <2>7 DEF SessionInv, SessionTypeOK
<1>a. ASSUME NEW c \in Callbacks, callback' \in [Callbacks -> CallbackRec],
             callback'[c].pc \in Accepted =>
               callback[c].pc \in Accepted /\ callback'[c].login = callback[c].login,
             \A d \in Callbacks \ {c} : callback'[d] = callback[d],
             sessions' \in [Callbacks -> {"none", "live", "expired", "deleted"}],
             sessions'[c] # "none" => callback'[c].pc = "done",
             sessions[c] \in {"expired", "deleted"} => sessions'[c] \in {"expired", "deleted"},
             \A d \in Callbacks \ {c} : sessions'[d] = sessions[d],
             UNCHANGED <<discovered, states, request>>
      PROVE  Goal
  <2>1. \A d \in Callbacks : callback'[d].pc \in Accepted
                               => states'[callback'[d].login] = "taken"
    BY <1>0, <1>a
  <2>2. \A d, e \in Callbacks :
          callback'[d].pc \in Accepted /\ callback'[e].pc \in Accepted
            /\ callback'[d].login = callback'[e].login => d = e
    BY <1>0, <1>a
  <2>3. \A d \in Callbacks : sessions'[d] # "none" => callback'[d].pc = "done"
    BY <1>0, <1>a
  <2> QED
    BY <1>0, <1>a, <2>1, <2>2, <2>3 DEF SessionInv, SessionTypeOK
<1>4. ASSUME NEW c \in Callbacks, NEW l \in Logins, CallbackRefused(c, l)
      PROVE  Goal
  <2>1. /\ callback' \in [Callbacks -> CallbackRec] /\ callback'[c].pc = "refused"
        /\ \A d \in Callbacks \ {c} : callback'[d] = callback[d]
    BY <1>0, <1>4, CallbackTakes DEF CallbackRefused
  <2> QED
    BY <1>0, <1>4, <1>a, <2>1 DEF CallbackRefused
<1>5. ASSUME NEW c \in Callbacks, NEW ok \in BOOLEAN, exchangeCode(c, ok)
      PROVE  Goal
  <2> DEFINE pc == IF ok THEN "userinfo" ELSE "refused"
  <2>1. pc \in {"userinfo", "refused"}
    OBVIOUS
  <2>2. /\ callback' = [callback EXCEPT ![c].pc = pc] /\ callback[c].pc = "exchange"
        /\ UNCHANGED <<discovered, states, sessions, request>>
    BY <1>5 DEF exchangeCode
  <2> HIDE DEF pc
  <2>3. /\ callback' \in [Callbacks -> CallbackRec]
        /\ callback'[c].pc = pc /\ callback'[c].login = callback[c].login
        /\ \A d \in Callbacks \ {c} : callback'[d] = callback[d]
    BY <1>0, <2>1, <2>2, CallbackGoes
  <2> QED
    BY <1>0, <1>a, <2>1, <2>2, <2>3
<1>6. ASSUME NEW c \in Callbacks, NEW ok \in BOOLEAN, getUserInfo(c, ok)
      PROVE  Goal
  <2> DEFINE pc == IF ok THEN "done" ELSE "refused"
  <2>1. pc \in {"done", "refused"} /\ (pc = "done" <=> ok)
    OBVIOUS
  <2>2. /\ callback' = [callback EXCEPT ![c].pc = pc] /\ callback[c].pc = "userinfo"
        /\ sessions' = [sessions EXCEPT ![c] = IF ok THEN "live" ELSE @]
        /\ UNCHANGED <<discovered, states, request>> /\ sessions[c] = "none"
    BY <1>0, <1>6 DEF getUserInfo
  <2> HIDE DEF pc
  <2>3. /\ callback' \in [Callbacks -> CallbackRec]
        /\ callback'[c].pc = pc /\ callback'[c].login = callback[c].login
        /\ \A d \in Callbacks \ {c} : callback'[d] = callback[d]
    BY <1>0, <2>1, <2>2, CallbackGoes
  <2>4. /\ sessions' \in [Callbacks -> {"none", "live", "expired", "deleted"}]
        /\ sessions'[c] # "none" => ok
        /\ \A d \in Callbacks \ {c} : sessions'[d] = sessions[d]
    BY <1>0, <2>2
  <2> QED
    BY <1>0, <1>a, <2>1, <2>2, <2>3, <2>4
<1>7. ASSUME NEW c \in Callbacks, SessionExpires(c) \/ handleLogout(c)
      PROVE  Goal
  <2>1. /\ sessions' \in [Callbacks -> {"none", "live", "expired", "deleted"}]
        /\ sessions[c] # "none"
        /\ sessions[c] \in {"expired", "deleted"} => sessions'[c] \in {"expired", "deleted"}
        /\ \A d \in Callbacks \ {c} : sessions'[d] = sessions[d]
        /\ UNCHANGED <<discovered, states, callback, request>>
    BY <1>0, <1>7 DEF SessionExpires, handleLogout
  <2> QED
    BY <1>0, <1>a, <2>1
<1>8. ASSUME NEW q \in Requests, NEW c \in Callbacks, getSession(q, c)
      PROVE  Goal
  <2> DEFINE pc == IF sessions[c] = "live" THEN "loaded" ELSE "login"
             new == [pc |-> pc, cookie |-> c]
  <2>1. pc \in {"loaded", "login"} /\ (pc = "loaded" => sessions[c] = "live")
    OBVIOUS
  <2> HIDE DEF pc
  <2>2. new \in RequestRec /\ new.pc = pc /\ new.cookie = c
    BY <2>1 DEF RequestRec
  <2>3. /\ request' = [request EXCEPT ![q] = new]
        /\ sessions' = [sessions EXCEPT ![c] = IF @ = "expired" THEN "deleted" ELSE @]
        /\ UNCHANGED <<discovered, states, callback>>
    BY <1>8 DEF getSession, pc
  <2> HIDE DEF new
  <2>4. /\ request' \in [Requests -> RequestRec] /\ request'[q] = new
        /\ \A p \in Requests \ {q} : request'[p] = request[p]
    BY <1>0, <2>2, <2>3
  <2>5. /\ sessions' \in [Callbacks -> {"none", "live", "expired", "deleted"}]
        /\ \A d \in Callbacks : sessions'[d] # "none" => sessions[d] # "none"
        /\ \A d \in Callbacks :
             sessions[d] \in {"expired", "deleted"} => sessions'[d] \in {"expired", "deleted"}
    BY <1>0, <2>3
  <2>6. \A p \in Requests : request[p].pc = "idle" /\ request'[p].pc = "loaded"
                              => sessions[request'[p].cookie] = "live"
    BY <2>1, <2>2, <2>4
  <2>7. SessionInv'
    BY <1>0, <2>3, <2>4, <2>5 DEF SessionInv, SessionTypeOK
  <2> QED
    BY <2>5, <2>6, <2>7
<1>9. ASSUME NEW q \in Requests, ServePage(q) \/ NextRequest(q)
      PROVE  Goal
  <2>1. PICK pc \in {"served", "idle"} : request' = [request EXCEPT ![q].pc = pc]
    BY <1>9 DEF ServePage, NextRequest
  <2> DEFINE new == [request[q] EXCEPT !.pc = pc]
  <2>2. new \in RequestRec /\ new.pc = pc
    BY <1>0, SessionTypes DEF RequestRec
  <2>3. request' = [request EXCEPT ![q] = new]
    BY <2>1
  <2> HIDE DEF new
  <2>4. /\ request' \in [Requests -> RequestRec]
        /\ \A p \in Requests : request'[p] = IF p = q THEN new ELSE request[p]
    BY <1>0, <2>2, <2>3
  <2>5. UNCHANGED <<discovered, states, callback, sessions>>
    BY <1>9 DEF ServePage, NextRequest
  <2> QED
    BY <1>0, <2>2, <2>4, <2>5 DEF SessionInv, SessionTypeOK
<1> HIDE DEF Goal
<1>10. Goal
  BY <1>1, <1>2, <1>3, <1>4, <1>5, <1>6, <1>7, <1>8, <1>9 DEF SessionNext
<1> QED
  BY <1>10 DEF Goal

\* In every reachable state a login's state has let one callback through at
\* most, for any number of callbacks.
THEOREM SessionInvariant == SessionSpec => []SessionInv
<1>1. SessionInit => SessionInv
  BY SessionInvInit
<1>2. SessionInv /\ [SessionNext]_sessionVars => SessionInv'
  <2>1. SessionInv /\ UNCHANGED sessionVars => SessionInv'
    BY DEF sessionVars, SessionInv, SessionTypeOK
  <2> QED
    BY <2>1, SessionStep
<1> QED
  BY <1>1, <1>2, PTL DEF SessionSpec

\* A login makes one session, and one that has ended does not come back.
THEOREM SessionsLiveOnce == SessionSpec => SessionLivesOnce
<1> DEFINE Once ==
      /\ \A c, d \in Callbacks :
           c # d /\ callback'[c].login = callback'[d].login
             => ~({callback'[c].pc, callback'[d].pc} \subseteq Accepted)
      /\ \A c \in Callbacks :
           sessions[c] \in {"expired", "deleted"} => sessions'[c] \in {"expired", "deleted"}
      /\ \A q \in Requests :
           request[q].pc = "idle" /\ request'[q].pc = "loaded"
             => sessions[request'[q].cookie] = "live"
<1>1. SessionInv /\ [SessionNext]_sessionVars => [Once]_sessionVars
  <2> SUFFICES ASSUME SessionInv, SessionNext PROVE Once
    OBVIOUS
  <2>1. SessionInv'
    BY SessionStep
  <2>2. \A c, d \in Callbacks :
          c # d /\ callback'[c].login = callback'[d].login
            => ~({callback'[c].pc, callback'[d].pc} \subseteq Accepted)
    BY <2>1 DEF SessionInv
  <2> QED
    BY <2>2, SessionStep
<1>2. SessionSpec => []SessionInv
  BY SessionInvariant
<1> QED
  BY <1>1, <1>2, PTL DEF SessionSpec, SessionLivesOnce

-----------------------------------------------------------------------------
(* Credentials.                                                            *)

\* Every step keeps the leases accounted for.
LEMMA CredInvStep == CredInv /\ [CredNext]_credVars => CredInv'
<1> SUFFICES ASSUME CredInv, [CredNext]_credVars PROVE CredInv'
  OBVIOUS
<1> USE DEF CredInv, LeasesAccountedFor
<1>0. /\ envSpec \in [CredNames -> CredSpecs] /\ env \in [CredNames -> SUBSET CredKeys]
      /\ vault.live \subseteq CredNames /\ vault.unknown \subseteq CredNames
      /\ credMgr \in [made : BOOLEAN, ssh : SUBSET CredNames, db : SUBSET CredNames,
                      leases : SUBSET CredNames, sshKeys : SUBSET CredNames]
      /\ credMgr.leases \subseteq CredNames /\ CredTypeOK
  BY DEF CredTypeOK
<1>1. ASSUME NEW ok \in BOOLEAN, NEW spec \in [CredNames -> CredSpecs],
             ProviderFactory(ok, spec)
      PROVE  CredInv'
  BY <1>1 DEF ProviderFactory, CredTypeOK
<1>2. ASSUME NEW ok \in BOOLEAN, ResolveEnvironment(ok)
      PROVE  CredInv'
  <2>1. \A c \in CredNames : ResolvedKeys(envSpec[c]) \in SUBSET CredKeys
    BY <1>0, CredConstants DEF ResolvedKeys
  <2>2. env' \in [CredNames -> SUBSET CredKeys]
    BY <1>2, <2>1 DEF ResolveEnvironment
  <2> QED
    BY <1>2, <2>2 DEF ResolveEnvironment, CredTypeOK
<1>3. ASSUME NEW ok \in BOOLEAN, VaultLogin(ok)
      PROVE  CredInv'
  <2> DEFINE new == [credMgr EXCEPT !.made = TRUE, !.ssh = OfType("vault-ssh-ca"),
                                    !.db = OfType("vault-database")]
  <2>1. OfType("vault-ssh-ca") \subseteq CredNames /\ OfType("vault-database") \subseteq CredNames
    BY DEF OfType
  <2>2. /\ new \in [made : BOOLEAN, ssh : SUBSET CredNames, db : SUBSET CredNames,
                    leases : SUBSET CredNames, sshKeys : SUBSET CredNames]
        /\ new.leases = credMgr.leases
    BY <1>0, <2>1
  <2>3. credMgr' \in {new, credMgr}
    BY <1>3 DEF VaultLogin
  <2> HIDE DEF new
  <2> QED
    BY <1>3, <2>2, <2>3 DEF VaultLogin, CredTypeOK
<1>4. ASSUME NEW c \in CredNames, NEW ok \in BOOLEAN, RequestSSH(c, ok)
      PROVE  CredInv'
  <2> DEFINE ssh == credMgr.ssh \ {c}
             keys == IF ok THEN credMgr.sshKeys \cup {c} ELSE credMgr.sshKeys
             more == IF ok THEN env[c] \cup {"private-key", "certificate", "user"} ELSE env[c]
  <2>1. credMgr' = [credMgr EXCEPT !.ssh = ssh, !.sshKeys = keys]
    BY <1>4 DEF RequestSSH, RequestSSHCredentials
  <2>2. ssh \subseteq CredNames /\ keys \subseteq CredNames /\ more \subseteq CredKeys
    BY <1>0 DEF CredKeys
  <2> HIDE DEF ssh, keys
  <2>3. /\ credMgr' \in [made : BOOLEAN, ssh : SUBSET CredNames, db : SUBSET CredNames,
                         leases : SUBSET CredNames, sshKeys : SUBSET CredNames]
        /\ credMgr'.leases = credMgr.leases
    BY <1>0, <2>1, <2>2
  <2>4. env' = [env EXCEPT ![c] = more]
    BY <1>4 DEF RequestSSH
  <2> HIDE DEF more
  <2>5. env' \in [CredNames -> SUBSET CredKeys]
    BY <1>0, <2>2, <2>4
  <2>6. UNCHANGED <<envSpec, factory, toolset, vault>>
    BY <1>4 DEF RequestSSH, RequestSSHCredentials
  <2> QED
    BY <2>3, <2>5, <2>6 DEF CredTypeOK
<1>5. ASSUME NEW c \in CredNames, NEW answer \in {"ok", "lost", "refused"}, RequestDB(c, answer)
      PROVE  CredInv'
  <2> DEFINE db == credMgr.db \ {c}
             leases == IF answer = "ok" THEN credMgr.leases \cup {c} ELSE credMgr.leases
             live == IF answer = "refused" THEN vault.live ELSE vault.live \cup {c}
             unknown == IF answer = "lost" THEN vault.unknown \cup {c} ELSE vault.unknown
             more == IF answer = "ok" THEN env[c] \cup {"username", "password"} ELSE env[c]
  <2>1. /\ credMgr' = [credMgr EXCEPT !.db = db, !.leases = leases]
        /\ vault' = [live |-> live, unknown |-> unknown]
        /\ env' = [env EXCEPT ![c] = more]
    BY <1>5 DEF RequestDB, RequestDBCredentials
  <2>2. /\ db \subseteq CredNames /\ leases \subseteq CredNames
        /\ live \subseteq CredNames /\ unknown \subseteq CredNames
    BY <1>0
  <2>3. more \subseteq CredKeys
    BY <1>0 DEF CredKeys
  <2>4. factory # "error" => live \subseteq leases \cup unknown
    BY <1>5
  <2> HIDE DEF db, leases, live, unknown, more
  <2>5. /\ credMgr' \in [made : BOOLEAN, ssh : SUBSET CredNames, db : SUBSET CredNames,
                         leases : SUBSET CredNames, sshKeys : SUBSET CredNames]
        /\ credMgr'.leases = leases
    BY <1>0, <2>1, <2>2
  <2>6. vault' \in [live : SUBSET CredNames, unknown : SUBSET CredNames]
        /\ vault'.live = live /\ vault'.unknown = unknown
    BY <2>1, <2>2
  <2>7. env' \in [CredNames -> SUBSET CredKeys]
    BY <1>0, <2>1, <2>3
  <2>8. UNCHANGED <<envSpec, factory, toolset>>
    BY <1>5 DEF RequestDB
  <2> QED
    BY <2>4, <2>5, <2>6, <2>7, <2>8 DEF CredTypeOK
<1>6. CASE RequestsDone
  BY <1>6 DEF RequestsDone, CredTypeOK
<1>7. ASSUME NEW ok \in BOOLEAN, ToolRegistry(ok)
      PROVE  CredInv'
  <2>1. toolset' \in [ssh : SUBSET CredNames, sql : SUBSET CredNames, http : SUBSET CredNames]
    BY <1>7 DEF ToolRegistry, NoTools, buildSSHCredentials, buildSQLDatabases,
                buildHTTPCredentialMappings
  <2>2. NoManager \in [made : BOOLEAN, ssh : SUBSET CredNames, db : SUBSET CredNames,
                       leases : SUBSET CredNames, sshKeys : SUBSET CredNames]
    BY DEF NoManager
  <2>3. CASE ok
    BY <1>7, <2>1, <2>3 DEF ToolRegistry, CredTypeOK
  <2>4. CASE ~ok
    BY <1>7, <2>1, <2>2, <2>4 DEF ToolRegistry, CredTypeOK
  <2> QED
    BY <2>3, <2>4
<1>8. CASE RunEnds
  BY <1>8 DEF RunEnds, CredTypeOK
<1>9. ASSUME NEW failed \in SUBSET credMgr.leases, Cleanup(failed)
      PROVE  CredInv'
  <2> DEFINE live == vault.live \ (credMgr.leases \ failed)
             unknown == vault.unknown \cup failed
  <2>1. live \subseteq CredNames /\ unknown \subseteq CredNames
    BY <1>0
  <2>2. live \subseteq unknown
    BY <1>9 DEF Cleanup
  <2>3. vault' = [live |-> live, unknown |-> unknown]
    BY <1>9 DEF Cleanup
  <2> HIDE DEF live, unknown
  <2>4. /\ vault' \in [live : SUBSET CredNames, unknown : SUBSET CredNames]
        /\ vault'.live = live /\ vault'.unknown = unknown
    BY <2>1, <2>3
  <2>5. credMgr' \in [made : BOOLEAN, ssh : SUBSET CredNames, db : SUBSET CredNames,
                      leases : SUBSET CredNames, sshKeys : SUBSET CredNames]
    BY <1>0, <1>9 DEF Cleanup
  <2>6. factory' = "done" /\ UNCHANGED <<envSpec, env, toolset>>
    BY <1>9 DEF Cleanup
  <2> QED
    BY <2>2, <2>4, <2>5, <2>6 DEF CredTypeOK
<1>10. CASE UNCHANGED credVars
  BY <1>10 DEF credVars, CredTypeOK
<1> QED
  BY <1>1, <1>2, <1>3, <1>4, <1>5, <1>6, <1>7, <1>8, <1>9, <1>10 DEF CredNext

\* Every lease Vault holds for a run is one that will be revoked or one an
\* error was logged for, for any environment and any failures.
THEOREM LeasesAreAccountedFor == CredSpec => []LeasesAccountedFor
<1>1. CredInit => CredInv
  <2> SUFFICES ASSUME CredInit PROVE CredInv
    OBVIOUS
  <2>1. envSpec \in [CredNames -> CredSpecs]
    <3>1. (CHOOSE s \in CredSpecs : TRUE) \in CredSpecs
      BY CredConstants
    <3> QED
      BY <3>1 DEF CredInit
  <2>2. env \in [CredNames -> SUBSET CredKeys]
    BY DEF CredInit
  <2>3. vault = [live |-> {}, unknown |-> {}]
    BY DEF CredInit
  <2> QED
    BY <2>1, <2>2, <2>3 DEF CredInit, CredInv, CredTypeOK, NoManager, NoTools, LeasesAccountedFor
<1>2. CredInv /\ [CredNext]_credVars => CredInv'
  BY CredInvStep
<1>3. CredInv => LeasesAccountedFor
  BY DEF CredInv
<1> QED
  BY <1>1, <1>2, <1>3, PTL DEF CredSpec

-----------------------------------------------------------------------------
(* TokenCache.                                                             *)

\* The types, one by one.
LEMMA TokenTypes ==
    ASSUME TokenTypeOK
    PROVE  /\ file \in FileRec /\ file.refresh \in Nat
           /\ file.state \in {"absent", "empty", "written"}
           /\ command \in [Commands -> CommandRec]
           /\ \A c \in Commands : /\ command[c] \in CommandRec /\ command[c].refresh \in Nat
                                  /\ command[c].polls \in Polls
           /\ issued \in 0 .. MaxTokens /\ MaxTokens \in Nat /\ usable \subseteq 1 .. MaxTokens
  BY TokenConstants DEF TokenTypeOK, FileRec, CommandRec, Tokens

\* A step of one command: its record changes, the others' do not.
LEMMA CommandBecomes ==
    ASSUME TokenTypeOK, NEW c \in Commands, NEW rec \in CommandRec,
           command' = [command EXCEPT ![c] = rec]
    PROVE  /\ command' \in [Commands -> CommandRec] /\ command'[c] = rec
           /\ \A d \in Commands \ {c} : command'[d] = command[d]
  BY TokenTypes

\* A step after which nobody saves, or could use up, more tokens than before
\* keeps the invariant.
LEMMA CommandStep ==
    ASSUME TokenInv, NEW c \in Commands, command' \in [Commands -> CommandRec],
           command[c].pc \notin {"truncate", "write"} \/ saveFailed',
           command'[c].pc \notin {"truncate", "write"},
           command'[c].refresh \in {0, command[c].refresh, file.refresh},
           \A d \in Commands \ {c} : command'[d] = command[d],
           UNCHANGED <<file, issued, usable>>, saveFailed' \in BOOLEAN,
           saveFailed => saveFailed'
    PROVE  TokenInv'
<1>0. /\ TokenTypeOK /\ issued \in Nat /\ usable \subseteq 1 .. issued
      /\ file.refresh \in Nat /\ file.refresh <= issued
      /\ \A d \in Commands : command[d].refresh \in Nat /\ command[d].refresh <= issued
  BY TokenTypes DEF TokenInv
<1>1. \A d \in Commands : command'[d].refresh <= issued
  BY <1>0
<1>2. ASSUME NEW d \in Commands, command'[d].pc \in {"truncate", "write"}
      PROVE  /\ command'[d].refresh \in usable /\ command'[d].refresh # file.refresh
             /\ \A e \in Commands \ {d} : command'[e].refresh # command'[d].refresh
  <2>1. d # c /\ command'[d] = command[d] /\ command[d].pc \in {"truncate", "write"}
    BY <1>2
  <2>2. /\ command[d].refresh \in usable /\ command[d].refresh # file.refresh
        /\ \A e \in Commands \ {d} : command[e].refresh # command[d].refresh
    BY <2>1 DEF TokenInv
  <2>3. command[d].refresh # 0
    BY <1>0, <2>2
  <2> QED
    BY <2>1, <2>2, <2>3
<1>3. RefreshTokenNotLost'
  <2> SUFFICES ASSUME file.state = "written", file.refresh \notin usable, ~saveFailed'
               PROVE  \E d \in Commands : /\ command'[d].pc \in {"truncate", "write"}
                                          /\ command'[d].refresh \in usable
    BY DEF RefreshTokenNotLost
  <2>1. PICK d \in Commands : command[d].pc \in {"truncate", "write"}
                              /\ command[d].refresh \in usable
    BY DEF TokenInv, RefreshTokenNotLost
  <2> QED
    BY <2>1
<1> QED
  BY <1>0, <1>1, <1>2, <1>3 DEF TokenInv, TokenTypeOK

\* A command that was issued a new token, in exchange for the one it held or
\* for a device code, is the only one to have it.
LEMMA TokenIssued ==
    ASSUME TokenInv, NEW c \in Commands, command[c].pc \in {"poll", "refresh"},
           issued < MaxTokens, issued' = issued + 1, NEW old,
           old = 0 \/ old = command[c].refresh,
           usable' = (usable \ {old}) \cup {issued + 1},
           command' \in [Commands -> CommandRec], command'[c].pc = "truncate",
           command'[c].refresh = issued + 1,
           \A d \in Commands \ {c} : command'[d] = command[d],
           UNCHANGED <<file, saveFailed>>
    PROVE  TokenInv'
<1>0. /\ TokenTypeOK /\ issued \in Nat /\ usable \subseteq 1 .. issued /\ MaxTokens \in Nat
      /\ file.refresh \in Nat /\ file.refresh <= issued
      /\ \A d \in Commands : command[d].refresh \in Nat /\ command[d].refresh <= issued
  BY TokenTypes DEF TokenInv
<1>1. /\ \A d \in Commands : command'[d].refresh <= issued' /\ file.refresh <= issued'
      /\ usable' \subseteq 1 .. issued' /\ issued' \in Tokens
  <2>1. \A d \in Commands : command'[d].refresh <= issued' /\ file.refresh <= issued'
    <3> TAKE d \in Commands
    <3>1. CASE d = c
      BY <1>0, <3>1
    <3>2. CASE d # c
      BY <1>0, <3>2
    <3> QED
      BY <3>1, <3>2
  <2>2. issued' \in Tokens
    BY <1>0 DEF Tokens
  <2>3. usable' \subseteq 1 .. issued'
    <3> SUFFICES ASSUME NEW u \in usable' PROVE u \in 1 .. issued + 1
      OBVIOUS
    <3>1. CASE u \in usable
      <4>1. u \in 1 .. issued
        BY <1>0, <3>1
      <4> QED
        BY <1>0, <4>1
    <3>2. CASE u = issued + 1
      BY <1>0, <3>2
    <3> QED
      BY <3>1, <3>2
  <2> QED
    BY <2>1, <2>2, <2>3
<1>2. usable' \subseteq 1 .. MaxTokens
  BY <1>0, <1>1
<1>3. ASSUME NEW d \in Commands, command'[d].pc \in {"truncate", "write"}
      PROVE  /\ command'[d].refresh \in usable' /\ command'[d].refresh # file.refresh
             /\ \A e \in Commands \ {d} : command'[e].refresh # command'[d].refresh
  <2>1. CASE d = c
    <3>1. command'[d].refresh = issued + 1
      BY <2>1
    <3>2. \A e \in Commands \ {d} : command'[e].refresh = command[e].refresh
      BY <2>1
    <3> QED
      BY <1>0, <3>1, <3>2
  <2>2. CASE d # c
    <3>1. command'[d] = command[d] /\ command[d].pc \in {"truncate", "write"}
      BY <1>3, <2>2
    <3>2. /\ command[d].refresh \in usable /\ command[d].refresh # file.refresh
          /\ \A e \in Commands \ {d} : command[e].refresh # command[d].refresh
      BY <3>1 DEF TokenInv
    <3>3. command[d].refresh # old /\ command[d].refresh # issued + 1
      BY <1>0, <2>2, <3>2
    <3> QED
      BY <3>1, <3>2, <3>3
  <2> QED
    BY <2>1, <2>2
<1>4. RefreshTokenNotLost'
  BY <1>3 DEF RefreshTokenNotLost
<1> QED
  BY <1>0, <1>1, <1>2, <1>3, <1>4 DEF TokenInv, TokenTypeOK

\* Every step preserves the invariant.
LEMMA TokenInvStep == TokenInv /\ [TokenNext]_tokenVars => TokenInv'
<1> SUFFICES ASSUME TokenInv, [TokenNext]_tokenVars PROVE TokenInv'
  OBVIOUS
<1>0. /\ TokenTypeOK /\ saveFailed \in BOOLEAN /\ file.refresh \in Tokens
      /\ file.state \in {"absent", "empty", "written"}
      /\ \A c \in Commands : /\ command[c].refresh \in Tokens
                             /\ command[c].polls \in Polls /\ command[c] \in CommandRec
      /\ 0 \in Tokens /\ 0 \in Polls /\ DeviceLifetime \in Polls /\ issued \in Nat
      /\ DeviceLifetime \in Nat /\ MaxTokens \in Nat /\ usable \subseteq 1 .. MaxTokens
  <2>1. 0 \in Tokens /\ 0 \in Polls /\ DeviceLifetime \in Polls /\ issued \in Nat
        /\ DeviceLifetime \in Nat /\ MaxTokens \in Nat /\ usable \subseteq 1 .. MaxTokens
    BY TokenConstants DEF TokenInv, TokenTypeOK, Tokens, Polls
  <2> QED
    BY <2>1 DEF TokenInv, TokenTypeOK, FileRec, CommandRec
<1>t. TokenTypeOK /\ \A c \in Commands : command[c] \in CommandRec
  BY TokenTypes DEF TokenInv
<1> DEFINE Goes(c, pc, token) ==
      /\ command' \in [Commands -> CommandRec]
      /\ command'[c].pc = pc /\ command'[c].refresh = token
      /\ \A d \in Commands \ {c} : command'[d] = command[d]
<1>c. {"idle", "poll", "refresh", "truncate", "write", "ready", "kube", "failed"} = CommandPcs
  BY DEF CommandPcs
<1>a. ASSUME NEW c \in Commands, NEW pc \in CommandPcs, command' = Goto(c, pc)
      PROVE  Goes(c, pc, command[c].refresh)
  <2> DEFINE rec == [command[c] EXCEPT !.pc = pc]
  <2>1. rec \in CommandRec /\ rec.pc = pc /\ rec.refresh = command[c].refresh
    BY <1>t DEF CommandRec
  <2>2. command' = [command EXCEPT ![c] = rec]
    BY <1>a DEF Goto
  <2> HIDE DEF rec
  <2>7. /\ command' \in [Commands -> CommandRec] /\ command'[c] = rec
        /\ \A d \in Commands \ {c} : command'[d] = command[d]
    BY <1>t, <2>1, <2>2, CommandBecomes
  <2> QED
    BY <2>1, <2>2, <2>7
<1>b. ASSUME NEW c \in Commands, NEW pc \in CommandPcs, NEW token \in Tokens,
             command' = Holds(c, pc, token)
      PROVE  Goes(c, pc, token)
  <2> DEFINE rec == [command[c] EXCEPT !.pc = pc, !.refresh = token]
  <2>1. rec \in CommandRec /\ rec.pc = pc /\ rec.refresh = token
    BY <1>t DEF CommandRec
  <2>2. command' = [command EXCEPT ![c] = rec]
    BY <1>b DEF Holds
  <2> HIDE DEF rec
  <2>7. /\ command' \in [Commands -> CommandRec] /\ command'[c] = rec
        /\ \A d \in Commands \ {c} : command'[d] = command[d]
    BY <1>t, <2>1, <2>2, CommandBecomes
  <2> QED
    BY <2>1, <2>2, <2>7
<1>1. ASSUME NEW c \in Commands, requestDeviceCode(c)
      PROVE  TokenInv'
  <2>1. \E pc \in {"poll", "failed"} : Goes(c, pc, command[c].refresh)
    <3>1. CASE command' = Goto(c, "failed")
      BY <1>a, <1>c, <3>1
    <3>2. CASE command' = [command EXCEPT ![c] = [@ EXCEPT !.pc = "poll",
                                                           !.polls = DeviceLifetime]]
      <4> DEFINE rec == [command[c] EXCEPT !.pc = "poll", !.polls = DeviceLifetime]
      <4>1. rec \in CommandRec /\ rec.pc = "poll" /\ rec.refresh = command[c].refresh
        BY <1>0, <1>c, <1>t DEF CommandRec
      <4>2. command' = [command EXCEPT ![c] = rec]
        BY <3>2
      <4> HIDE DEF rec
      <4>7. /\ command' \in [Commands -> CommandRec] /\ command'[c] = rec
            /\ \A d \in Commands \ {c} : command'[d] = command[d]
        BY <1>t, <4>1, <4>2, CommandBecomes
      <4> QED
        BY <4>1, <4>2, <4>7
    <3> QED
      BY <1>1, <3>1, <3>2 DEF requestDeviceCode
  <2> QED
    BY <1>0, <1>1, <2>1, CommandStep DEF requestDeviceCode
<1>2. ASSUME NEW c \in Commands, pollDeviceToken(c)
      PROVE  TokenInv'
  <2>1. CASE command' = Goto(c, "failed") /\ UNCHANGED <<issued, usable>>
    <3>1. Goes(c, "failed", command[c].refresh)
      BY <1>a, <1>c, <2>1
    <3> QED
      BY <1>0, <1>2, <2>1, <3>1, CommandStep DEF pollDeviceToken
  <2>2. CASE /\ command[c].polls > 0 /\ UNCHANGED <<issued, usable>>
             /\ command' = [command EXCEPT ![c].polls = @ - 1]
    <3> DEFINE polls == command[c].polls - 1
               rec == [command[c] EXCEPT !.polls = polls]
    <3>1. polls \in Polls /\ command[c].pc = "poll"
      BY <1>0, <1>2, <2>2 DEF pollDeviceToken, Polls
    <3>2. command' = [command EXCEPT ![c] = rec]
      BY <2>2
    <3> HIDE DEF polls
    <3>4. rec \in CommandRec /\ rec.pc = "poll" /\ rec.refresh = command[c].refresh
      BY <1>t, <3>1 DEF CommandRec
    <3> HIDE DEF rec
    <3>7. /\ command' \in [Commands -> CommandRec] /\ command'[c] = rec
          /\ \A d \in Commands \ {c} : command'[d] = command[d]
      BY <1>t, <3>2, <3>4, CommandBecomes
    <3>3. Goes(c, "poll", command[c].refresh)
      BY <3>4, <3>7
    <3> QED
      BY <1>0, <1>2, <2>2, <3>3, CommandStep DEF pollDeviceToken
  <2>3. CASE /\ issued < MaxTokens
             /\ issued' = issued + 1 /\ usable' = usable \cup {issued + 1}
             /\ command' = Holds(c, "truncate", issued + 1)
    <3>1. issued + 1 \in Tokens
      BY <1>0, <2>3 DEF Tokens
    <3>2. Goes(c, "truncate", issued + 1)
      BY <1>b, <1>c, <2>3, <3>1
    <3>3. usable' = (usable \ {0}) \cup {issued + 1}
      BY <1>0, <2>3
    <3> QED
      BY <1>2, <2>3, <3>2, <3>3, TokenIssued DEF pollDeviceToken
  <2> QED
    BY <1>2, <2>1, <2>2, <2>3 DEF pollDeviceToken
<1>3. ASSUME NEW c \in Commands, tryAPIClient(c)
      PROVE  TokenInv'
  <2>1. PICK pc \in {"kube", "failed", "refresh", "ready"} :
          command' = Holds(c, pc, file.refresh)
    BY <1>3 DEF tryAPIClient
  <2>2. Goes(c, pc, file.refresh)
    BY <1>0, <1>b, <1>c, <2>1
  <2> QED
    BY <1>0, <1>3, <2>1, <2>2, CommandStep DEF tryAPIClient
<1>4. ASSUME NEW c \in Commands, refreshCachedToken(c)
      PROVE  TokenInv'
  <2>1. CASE command' = Goto(c, "failed") /\ UNCHANGED <<issued, usable>>
    <3>1. Goes(c, "failed", command[c].refresh)
      BY <1>a, <1>c, <2>1
    <3> QED
      BY <1>0, <1>4, <2>1, <3>1, CommandStep DEF refreshCachedToken
  <2>2. CASE /\ issued < MaxTokens /\ issued' = issued + 1
             /\ usable' = (usable \ {command[c].refresh}) \cup {issued + 1}
             /\ command' = Holds(c, "truncate", issued + 1)
    <3>1. issued + 1 \in Tokens
      BY <1>0, <2>2 DEF Tokens
    <3>2. Goes(c, "truncate", issued + 1)
      BY <1>b, <1>c, <2>2, <3>1
    <3> QED
      BY <1>4, <2>2, <3>2, TokenIssued DEF refreshCachedToken
  <2> QED
    BY <1>4, <2>1, <2>2 DEF refreshCachedToken
<1>5. ASSUME NEW c \in Commands, saveTokenCache(c)
      PROVE  TokenInv'
  <2>0. /\ UNCHANGED <<issued, usable>> /\ command[c].pc \in {"truncate", "write"}
        /\ command[c].refresh \in usable
        /\ \A d \in Commands \ {c} : command[d].refresh # command[c].refresh
        /\ usable \subseteq 1 .. issued
    BY <1>5 DEF saveTokenCache, TokenInv
  <2>1. CASE command' = Goto(c, "failed") /\ saveFailed' = TRUE /\ UNCHANGED file
    <3>1. Goes(c, "failed", command[c].refresh)
      BY <1>a, <1>c, <2>1
    <3> QED
      BY <1>0, <2>0, <2>1, <3>1, CommandStep
  <2>2. CASE /\ file' = [state |-> "empty", refresh |-> 0, expired |-> FALSE]
             /\ command' = Goto(c, "write") /\ UNCHANGED saveFailed
    <3>1. Goes(c, "write", command[c].refresh)
      BY <1>a, <1>c, <2>2
    <3>2. file' \in FileRec /\ file'.state = "empty" /\ file'.refresh = 0 /\ 0 <= issued
      BY <1>0, <2>2 DEF FileRec
    <3>3. ASSUME NEW d \in Commands
          PROVE  /\ command'[d].refresh = command[d].refresh
                 /\ command'[d].pc \in {"truncate", "write"}
                      => command[d].pc \in {"truncate", "write"}
      BY <2>0, <3>1
    <3>4. ASSUME NEW d \in Commands, command'[d].pc \in {"truncate", "write"}
          PROVE  /\ command'[d].refresh \in usable /\ command'[d].refresh # 0
                 /\ \A e \in Commands \ {d} : command'[e].refresh # command'[d].refresh
      <4>1. /\ command[d].refresh \in usable
            /\ \A e \in Commands \ {d} : command[e].refresh # command[d].refresh
        BY <3>3, <3>4 DEF TokenInv
      <4>2. command[d].refresh # 0
        BY <2>0, <4>1
      <4> QED
        BY <3>3, <4>1, <4>2
    <3>5. \A d \in Commands : command'[d].refresh <= issued
      BY <3>3 DEF TokenInv
    <3>6. RefreshTokenNotLost'
      BY <3>2 DEF RefreshTokenNotLost
    <3> QED
      BY <1>0, <2>0, <2>2, <3>1, <3>2, <3>4, <3>5, <3>6 DEF TokenInv, TokenTypeOK
  <2>3. CASE /\ file' = [state |-> "written", refresh |-> command[c].refresh, expired |-> FALSE]
             /\ command' = Goto(c, "ready") /\ UNCHANGED saveFailed
    <3>1. Goes(c, "ready", command[c].refresh)
      BY <1>a, <1>c, <2>3
    <3>2. file' \in FileRec /\ file'.refresh = command[c].refresh
      BY <1>0, <2>3 DEF FileRec
    <3>3. ASSUME NEW d \in Commands
          PROVE  /\ command'[d].refresh = command[d].refresh
                 /\ command'[d].pc \in {"truncate", "write"}
                      => d # c /\ command[d].pc \in {"truncate", "write"}
      BY <3>1
    <3>4. ASSUME NEW d \in Commands, command'[d].pc \in {"truncate", "write"}
          PROVE  /\ command'[d].refresh \in usable /\ command'[d].refresh # file'.refresh
                 /\ \A e \in Commands \ {d} : command'[e].refresh # command'[d].refresh
      <4>1. /\ command[d].refresh \in usable /\ d # c
            /\ \A e \in Commands \ {d} : command[e].refresh # command[d].refresh
        BY <3>3, <3>4 DEF TokenInv
      <4> QED
        BY <3>2, <3>3, <4>1
    <3>5. \A d \in Commands : command'[d].refresh <= issued /\ file'.refresh <= issued
      BY <3>2, <3>3 DEF TokenInv
    <3>6. RefreshTokenNotLost'
      BY <2>0, <3>2 DEF RefreshTokenNotLost
    <3> QED
      BY <1>0, <2>0, <2>3, <3>1, <3>2, <3>4, <3>5, <3>6 DEF TokenInv, TokenTypeOK
  <2> QED
    BY <1>5, <2>1, <2>2, <2>3 DEF saveTokenCache
<1>6. ASSUME NEW c \in Commands, CommandEnds(c)
      PROVE  TokenInv'
  <2>1. Goes(c, "idle", 0)
    <3> DEFINE rec == [pc |-> "idle", refresh |-> 0, polls |-> 0]
    <3>1. rec \in CommandRec /\ rec.pc = "idle" /\ rec.refresh = 0
      BY <1>0, <1>c DEF CommandRec
    <3>2. command' = [command EXCEPT ![c] = rec]
      BY <1>6 DEF CommandEnds
    <3> HIDE DEF rec
    <3>7. /\ command' \in [Commands -> CommandRec] /\ command'[c] = rec
          /\ \A d \in Commands \ {c} : command'[d] = command[d]
      BY <1>t, <3>1, <3>2, CommandBecomes
    <3> QED
      BY <3>1, <3>2, <3>7
  <2> QED
    BY <1>0, <1>6, <2>1, CommandStep DEF CommandEnds
<1>7. CASE TokenExpires
  <2>1. /\ file' \in FileRec /\ file'.state = file.state /\ file'.refresh = file.refresh
        /\ UNCHANGED <<command, issued, usable, saveFailed>>
    BY <1>0, <1>7 DEF TokenExpires, TokenTypeOK, FileRec
  <2> QED
    BY <1>0, <2>1 DEF TokenInv, TokenTypeOK, RefreshTokenNotLost
<1>8. CASE UNCHANGED tokenVars
  BY <1>8 DEF tokenVars, TokenInv, TokenTypeOK, RefreshTokenNotLost
<1> QED
  BY <1>1, <1>2, <1>3, <1>4, <1>5, <1>6, <1>7, <1>8 DEF TokenNext

\* Concurrent refreshes and logins do not lose the user's refresh token,
\* for any number of commands, unless a save fails.
THEOREM RefreshTokensKept == TokenSpec => []RefreshTokenNotLost
<1>1. TokenInit => TokenInv
  <2> SUFFICES ASSUME TokenInit PROVE TokenInv
    OBVIOUS
  <2>1. file \in FileRec /\ file.refresh = 0 /\ file.state = "absent"
    BY TokenConstants DEF TokenInit, NoFile, FileRec, Tokens
  <2>2. /\ command \in [Commands -> CommandRec]
        /\ \A c \in Commands : command[c].pc = "idle" /\ command[c].refresh = 0
    BY TokenConstants DEF TokenInit, CommandRec, CommandPcs, Tokens, Polls
  <2>3. issued = 0 /\ usable = {} /\ issued \in Tokens /\ saveFailed \in BOOLEAN
    <3>1. 0 \in Tokens
      BY TokenConstants DEF Tokens
    <3>2. issued = 0 /\ usable = {} /\ saveFailed = FALSE
      BY DEF TokenInit
    <3> QED
      BY <3>1, <3>2
  <2>4. usable \subseteq 1 .. issued /\ usable \subseteq 1 .. MaxTokens
    BY <2>3
  <2>5. \A c \in Commands : command[c].refresh <= issued /\ file.refresh <= issued
    BY <2>1, <2>2, <2>3
  <2>6. file.refresh <= issued
    BY <2>1, <2>3
  <2> QED
    BY <2>1, <2>2, <2>3, <2>4, <2>5, <2>6 DEF TokenInv, TokenTypeOK, RefreshTokenNotLost
<1>2. TokenInv /\ [TokenNext]_tokenVars => TokenInv'
  BY TokenInvStep
<1>3. TokenInv => RefreshTokenNotLost
  BY DEF TokenInv
<1> QED
  BY <1>1, <1>2, <1>3, PTL DEF TokenSpec

-----------------------------------------------------------------------------
(* The model providers.                                                    *)

\* What names are made of, and what a message on the wire is.
Word == STRING \cup {".", "_"}

WireMessage == [role : {"user", "assistant", "tool"},
                calls : Seq([id : CallId, name : Seq(Word)]), results : Seq(CallId)]

ResultsOf(wire) == [j \in 1 .. Len(wire) |-> wire[j].results]

\* A question and the messages that answer all of it keep the wire paired.
LEMMA PairedExchange ==
    ASSUME NEW w \in Seq(WireMessage), Paired(w),
           NEW a \in WireMessage, a.role = "assistant",
           NEW r \in Seq(WireMessage), \A j \in 1 .. Len(r) : r[j].role # "assistant",
           Joined(ResultsOf(r)) = Ids(a.calls)
    PROVE  Paired((w \o <<a>>) \o r)
<1> DEFINE L == Len(w)
           v == (w \o <<a>>) \o r
<1>1. /\ L \in Nat /\ Len(r) \in Nat /\ L >= 1 /\ DOMAIN w = 1 .. L
      /\ v \in Seq(WireMessage) /\ Len(v) = L + 1 + Len(r) /\ DOMAIN v = 1 .. Len(v)
      /\ \A i \in 1 .. L : v[i] = w[i]
      /\ v[L + 1] = a
      /\ \A j \in 1 .. Len(r) : v[L + 1 + j] = r[j]
  <2> DEFINE u == w \o <<a>>
  <2>1. /\ u \in Seq(WireMessage) /\ Len(u) = L + 1 /\ u[L + 1] = a
        /\ \A i \in 1 .. L : u[i] = w[i]
    OBVIOUS
  <2>2. L \in Nat /\ Len(r) \in Nat /\ DOMAIN w = 1 .. L
    OBVIOUS
  <2>3. L >= 1
    BY <2>2 DEF Paired
  <2> HIDE DEF u, L
  <2>4. /\ v \in Seq(WireMessage) /\ Len(v) = L + 1 + Len(r)
        /\ \A i \in 1 .. (L + 1) : v[i] = u[i]
        /\ \A j \in 1 .. Len(r) : v[L + 1 + j] = r[j]
    <3>1. v = u \o r
      BY DEF u
    <3>2. /\ u \o r \in Seq(WireMessage) /\ Len(u \o r) = Len(u) + Len(r)
          /\ \A i \in 1 .. Len(u) : (u \o r)[i] = u[i]
          /\ \A j \in 1 .. Len(r) : (u \o r)[Len(u) + j] = r[j]
      <4>1. u \in Seq(WireMessage) /\ r \in Seq(WireMessage)
        BY <2>1
      <4> HIDE DEF v
      <4> QED
        BY ONLY <4>1, Concatenation
    <3> HIDE DEF v
    <3> QED
      BY <2>1, <3>1, <3>2
  <2> HIDE DEF v
  <2>5. DOMAIN v = 1 .. Len(v)
    BY <2>4
  <2> QED
    BY <2>1, <2>2, <2>3, <2>4, <2>5
<1> HIDE DEF v, L
<1>2. v # <<>> /\ v[1].results = <<>>
  <2>1. 1 \in 1 .. L /\ Len(v) # 0
    BY <1>1
  <2>2. v[1] = w[1]
    BY <1>1, <2>1
  <2> QED
    BY <2>1, <2>2 DEF Paired
<1>3. ASSUME NEW i \in 1 .. Len(v), NEW e \in i .. Len(v),
             v[i].role = "assistant", LastAnswer(v, i, e)
      PROVE  Answers(v, i, e) = Ids(v[i].calls)
  <2>1. i \in Nat /\ e \in Nat /\ i <= e /\ e <= L + 1 + Len(r) /\ i >= 1
    BY <1>1, <1>3
  <2>2. CASE i <= L
    <3>1. e <= L
      <4>1. L + 1 \in (i + 1) .. e => v[L + 1].role # "assistant"
        BY <1>3 DEF LastAnswer
      <4> QED
        BY <1>1, <2>1, <2>2, <4>1
    <3>2. v[i] = w[i] /\ i \in 1 .. L /\ e \in i .. L
      BY <1>1, <2>1, <2>2, <3>1
    <3>3. ASSUME NEW j \in (i + 1) .. e
          PROVE  w[j].role # "assistant"
      <4>1. j \in 1 .. L
        BY <1>1, <2>1, <3>1
      <4> QED
        BY <1>1, <1>3, <4>1 DEF LastAnswer
    <3>4. ASSUME e < L
          PROVE  w[e + 1].role = "assistant"
      <4>1. e + 1 \in 1 .. L /\ e < Len(v)
        BY <1>1, <2>1, <3>4
      <4> QED
        BY <1>1, <1>3, <4>1 DEF LastAnswer
    <3>5. Answers(w, i, e) = Ids(w[i].calls)
      <4>1. LastAnswer(w, i, e)
        BY <3>3, <3>4 DEF LastAnswer, L
      <4> QED
        BY <1>1, <1>3, <3>2, <4>1 DEF Paired, L
    <3>6. Answers(v, i, e) = Answers(w, i, e)
      <4>1. \A j \in 1 .. (e - i) : i + j \in 1 .. L
        BY <1>1, <2>1, <3>1
      <4>2. \A j \in 1 .. (e - i) : v[i + j].results = w[i + j].results
        BY <1>1, <4>1
      <4>3. [j \in 1 .. (e - i) |-> v[i + j].results] = [j \in 1 .. (e - i) |-> w[i + j].results]
        BY <4>2
      <4> QED
        BY <4>3 DEF Answers
    <3> QED
      BY <3>2, <3>5, <3>6
  <2>3. CASE i = L + 1
    <3>1. e = Len(v)
      <4> SUFFICES ~ (e < Len(v))
        <5>1. Len(v) \in Nat /\ e <= Len(v)
          BY <1>1, <2>1
        <5> QED
          BY <2>1, <5>1
      <4>1. SUFFICES ASSUME e < Len(v) PROVE FALSE
        OBVIOUS
      <4>2. v[e + 1].role = "assistant"
        BY <1>3, <4>1 DEF LastAnswer
      <4>3. PICK j \in 1 .. Len(r) : e + 1 = L + 1 + j
        <5>1. (e - L) \in 1 .. Len(r) /\ e + 1 = L + 1 + (e - L)
          BY <1>1, <2>1, <2>3, <4>1
        <5> QED
          BY <5>1
      <4>4. v[e + 1] = r[j]
        BY <1>1, <4>3
      <4> QED
        BY <4>2, <4>4
    <3>2. e - i = Len(r)
      BY <1>1, <2>3, <3>1
    <3>3. \A j \in 1 .. Len(r) : v[i + j].results = r[j].results
      BY <1>1, <2>3
    <3>4. [j \in 1 .. Len(r) |-> v[i + j].results] = ResultsOf(r)
      BY <3>3 DEF ResultsOf
    <3>5. Answers(v, i, e) = Joined(ResultsOf(r))
      BY <3>2, <3>4 DEF Answers
    <3> QED
      BY <1>1, <2>3, <3>5
  <2>4. CASE i > L + 1
    <3>1. PICK j \in 1 .. Len(r) : i = L + 1 + j
      <4>1. (i - (L + 1)) \in 1 .. Len(r) /\ i = L + 1 + (i - (L + 1))
        BY <1>1, <2>1, <2>4
      <4> QED
        BY <4>1
    <3>2. v[i] = r[j]
      BY <1>1, <3>1
    <3> QED
      BY <1>3, <3>2
  <2> QED
    BY <1>1, <2>1, <2>2, <2>3, <2>4
<1>4. DOMAIN v = 1 .. Len(v)
  BY <1>1
<1> QED
  BY <1>2, <1>3, <1>4 DEF Paired, v

\* A name keeps its length when separators are replaced.
LEMMA Replaced ==
    ASSUME NEW name \in Seq(Word), NEW from, NEW to \in Word
    PROVE  /\ Replace(name, from, to) \in Seq(Word)
           /\ DOMAIN Replace(name, from, to) = DOMAIN name
           /\ \A i \in DOMAIN name :
                Replace(name, from, to)[i] = IF name[i] = from THEN to ELSE name[i]
<1>1. DOMAIN name = 1 .. Len(name) /\ Len(name) \in Nat /\ \A i \in 1 .. Len(name) : name[i] \in Word
  BY SequenceOf
<1> DEFINE new == Replace(name, from, to)
<1>2. /\ new \in [1 .. Len(name) -> Word]
      /\ \A i \in 1 .. Len(name) : new[i] = IF name[i] = from THEN to ELSE name[i]
  BY <1>1 DEF Replace
<1> HIDE DEF new
<1>3. new \in Seq(Word) /\ DOMAIN new = 1 .. Len(name)
  BY <1>1, <1>2, FunctionIsSequence
<1> QED
  BY <1>1, <1>2, <1>3 DEF new

\* What comes back of a name is the name with its underscores replaced.
LEMMA NamesReturn ==
    ASSUME NEW name \in Seq(Word)
    PROVE  /\ unsanitizeToolName(sanitizeToolName(name)) \in Seq(Word)
           /\ unsanitizeToolName(sanitizeToolName(name)) = Replace(name, "_", ".")
<1> DEFINE s == sanitizeToolName(name)
           u == unsanitizeToolName(s)
           r == Replace(name, "_", ".")
<1>p. PICK under, dot : under = "_" /\ dot = "."
  OBVIOUS
<1>0. under \in Word /\ dot \in Word /\ under # dot
  BY <1>p DEF Word
<1>1. /\ s \in Seq(Word) /\ DOMAIN s = DOMAIN name
      /\ \A i \in DOMAIN name : s[i] = IF name[i] = dot THEN under ELSE name[i]
  <2>1. s = Replace(name, dot, under)
    BY <1>p DEF sanitizeToolName
  <2> HIDE DEF s
  <2> QED
    BY <1>0, <2>1, Replaced
<1> HIDE DEF s
<1>2. /\ u \in Seq(Word) /\ DOMAIN u = DOMAIN name
      /\ \A i \in DOMAIN name : u[i] = IF s[i] = under THEN dot ELSE s[i]
  <2>1. /\ u \in Seq(Word) /\ DOMAIN u = DOMAIN s
        /\ \A i \in DOMAIN s : u[i] = IF s[i] = under THEN dot ELSE s[i]
    <3>1. u = Replace(s, under, dot)
      BY <1>p DEF unsanitizeToolName
    <3> HIDE DEF u
    <3> QED
      BY <1>0, <1>1, <3>1, Replaced
  <2> QED
    BY <1>1, <2>1
<1>3. /\ r \in Seq(Word) /\ DOMAIN r = DOMAIN name
      /\ \A i \in DOMAIN name : r[i] = IF name[i] = under THEN dot ELSE name[i]
  <2>1. r = Replace(name, under, dot)
    BY <1>p
  <2> HIDE DEF r
  <2> QED
    BY <1>0, <2>1, Replaced
<1> HIDE DEF u, r
<1>4. ASSUME NEW i \in DOMAIN name
      PROVE  u[i] = r[i]
  BY <1>0, <1>1, <1>2, <1>3
<1>5. u = [i \in DOMAIN name |-> u[i]] /\ r = [i \in DOMAIN name |-> r[i]]
  <2>1. DOMAIN u = 1 .. Len(u) /\ DOMAIN r = 1 .. Len(r)
    BY <1>2, <1>3, SequenceOf
  <2>2. u = [i \in DOMAIN u |-> u[i]] /\ r = [i \in DOMAIN r |-> r[i]]
    BY <1>2, <1>3, <2>1, SequenceOf
  <2> QED
    BY <1>2, <1>3, <2>2
<1>6. u = r
  BY <1>4, <1>5
<1> QED
  BY <1>2, <1>6 DEF u, r, s

\* Every name that comes back is one the registry knows, or had an underscore.
LEMMA ReceivedNames ==
    ASSUME NEW name \in Received
    PROVE  /\ name \in Seq(Word)
           /\ \/ name \in ToolNames
              \/ \E tool \in ToolNames : /\ \E i \in DOMAIN tool : tool[i] = "_"
                                         /\ name = [i \in DOMAIN tool |->
                                                      IF tool[i] = "_" THEN "." ELSE tool[i]]
<1>1. PICK tool \in ToolNames : name = unsanitizeToolName(sanitizeToolName(tool))
  BY DEF Received
<1>2. tool \in Seq(Word)
  <2>1. tool \in Seq(STRING)
    BY ProviderConstants
  <2>2. Len(tool) \in Nat /\ tool \in [1 .. Len(tool) -> STRING]
    BY <2>1, SequenceOf
  <2>3. tool \in [1 .. Len(tool) -> Word]
    BY <2>2 DEF Word
  <2> QED
    BY <2>2, <2>3, FunctionIsSequence
<1>3. name \in Seq(Word) /\ name = [i \in DOMAIN tool |-> IF tool[i] = "_" THEN "." ELSE tool[i]]
  BY <1>1, <1>2, NamesReturn DEF Replace
<1>4. CASE \A i \in DOMAIN tool : tool[i] # "_"
  <2>1. [i \in DOMAIN tool |-> IF tool[i] = "_" THEN "." ELSE tool[i]] = [i \in DOMAIN tool |-> tool[i]]
    BY <1>4
  <2>2. tool = [i \in DOMAIN tool |-> tool[i]]
    BY <1>2, SequenceOf
  <2>3. name = tool
    BY <1>3, <2>1, <2>2
  <2> QED
    BY <1>3, <2>3
<1>5. CASE \E i \in DOMAIN tool : tool[i] = "_"
  BY <1>3, <1>5
<1> QED
  BY <1>4, <1>5

\* A message with calls is one message on the wire, with the same ids.
LEMMA WireOther ==
    ASSUME NEW m \in Message, m.results = <<>>
    PROVE  \E a \in WireMessage : /\ toWire(m) = <<a>> /\ a.role = m.role
                                  /\ a.results = <<>> /\ Ids(a.calls) = Ids(m.calls)
<1> DEFINE n == Len(m.calls)
<1>1. /\ m.role \in {"user", "assistant"} /\ m.calls \in Seq([id : CallId, name : Received])
      /\ m.results \in Seq(CallId)
  BY DEF Message
<1>2. /\ n \in Nat /\ DOMAIN m.calls = 1 .. n
      /\ \A i \in 1 .. n : m.calls[i] \in [id : CallId, name : Received]
  BY <1>1, SequenceOf
<1>3. \A i \in 1 .. n : m.calls[i].id \in CallId /\ m.calls[i].name \in Seq(Word)
  BY <1>2, ReceivedNames
<1>4. CASE chat.kind = "openai"
  <2> DEFINE calls == [i \in 1 .. n |-> Call(m.calls[i].id, sanitizeToolName(m.calls[i].name))]
             a == [role |-> m.role, results |-> <<>>, calls |-> calls]
  <2>1. toWire(m) = <<a>>
    BY <1>2, <1>4 DEF toWire, toOpenAIMessages
  <2>2. ASSUME NEW i \in 1 .. n
        PROVE  /\ Call(m.calls[i].id, sanitizeToolName(m.calls[i].name)) \in [id : CallId, name : Seq(Word)]
               /\ Call(m.calls[i].id, sanitizeToolName(m.calls[i].name)).id = m.calls[i].id
    <3>1. sanitizeToolName(m.calls[i].name) \in Seq(Word)
      <4>1. "_" \in Word
        BY DEF Word
      <4> QED
        BY <1>3, <4>1, Replaced DEF sanitizeToolName
    <3> QED
      BY <1>3, <3>1 DEF Call
  <2>3. /\ calls \in [1 .. n -> [id : CallId, name : Seq(Word)]]
        /\ \A i \in 1 .. n : calls[i].id = m.calls[i].id
    BY <2>2
  <2> HIDE DEF calls, n
  <2>4. calls \in Seq([id : CallId, name : Seq(Word)]) /\ DOMAIN calls = 1 .. n
    BY <1>2, <2>3, FunctionIsSequence
  <2>5. Ids(calls) = Ids(m.calls)
    BY <1>2, <2>3, <2>4 DEF Ids
  <2>6. a \in WireMessage
    BY <1>1, <2>4 DEF WireMessage
  <2> QED
    BY <2>1, <2>5, <2>6
<1>5. CASE chat.kind # "openai"
  <2> DEFINE a == [role |-> m.role, calls |-> m.calls, results |-> m.results]
  <2>1. toWire(m) = <<a>>
    BY <1>5 DEF toWire, toAnthropicMessage
  <2>2. m.calls \in Seq([id : CallId, name : Seq(Word)])
    <3>1. m.calls \in [1 .. n -> [id : CallId, name : Seq(Word)]]
      <4>1. ASSUME NEW i \in 1 .. n
            PROVE  m.calls[i] \in [id : CallId, name : Seq(Word)]
        BY <1>2, <1>3
      <4> QED
        BY <1>1, <1>2, <4>1
    <3> HIDE DEF n
    <3> QED
      BY <1>2, <3>1, FunctionIsSequence
  <2>3. a \in WireMessage
    BY <1>1, <2>2 DEF WireMessage
  <2> QED
    BY <2>1, <2>3
<1> QED
  BY <1>4, <1>5

\* The results of a user's message go out in their order, in one message or in
\* one each.
LEMMA WireResults ==
    ASSUME NEW m \in Message, m.role = "user", m.calls = <<>>, m.results # <<>>
    PROVE  /\ toWire(m) \in Seq(WireMessage)
           /\ \A j \in 1 .. Len(toWire(m)) : toWire(m)[j].role # "assistant"
           /\ Joined(ResultsOf(toWire(m))) = m.results
<1> DEFINE n == Len(m.results)
           w == toWire(m)
<1>1. /\ m.results \in Seq(CallId) /\ n \in Nat /\ DOMAIN m.results = 1 .. n
      /\ \A i \in 1 .. n : m.results[i] \in CallId
  BY DEF Message
<1>2. CASE chat.kind = "openai"
  <2> DEFINE Tool(i) == [role |-> "tool", calls |-> <<>>, results |-> <<m.results[i]>>]
  <2>1. w = [i \in 1 .. n |-> Tool(i)]
    BY <1>1, <1>2 DEF toWire, toOpenAIMessages
  <2>2. ASSUME NEW i \in 1 .. n
        PROVE  /\ Tool(i) \in WireMessage /\ Tool(i).role # "assistant"
               /\ Tool(i).results = <<m.results[i]>>
    <3>1. <<m.results[i]>> \in Seq(CallId)
      BY <1>1
    <3> QED
      BY <3>1 DEF WireMessage
  <2> HIDE DEF w, Tool, n
  <2>3. w \in [1 .. n -> WireMessage] /\ \A i \in 1 .. n : w[i] = Tool(i)
    BY <2>1, <2>2
  <2>4. w \in Seq(WireMessage) /\ Len(w) = n
    BY <1>1, <2>3
  <2>5. \A j \in 1 .. n : w[j].role # "assistant" /\ w[j].results = <<m.results[j]>>
    BY <2>2, <2>3
  <2>6. ResultsOf(w) = [j \in 1 .. n |-> <<m.results[j]>>]
    BY <2>4, <2>5 DEF ResultsOf
  <2>7. Joined([j \in 1 .. n |-> <<m.results[j]>>]) = m.results
    BY <1>1, JoinedSingletons DEF n
  <2> QED
    BY <2>4, <2>5, <2>6, <2>7 DEF w
<1>3. CASE chat.kind # "openai"
  <2> DEFINE a == [role |-> "user", calls |-> <<>>, results |-> m.results]
  <2>1. w = <<a>>
    BY <1>3 DEF toWire, toAnthropicMessage
  <2>2. a \in WireMessage /\ a.role # "assistant" /\ a.results = m.results
    BY <1>1 DEF WireMessage
  <2> HIDE DEF w, a
  <2>3. w \in Seq(WireMessage) /\ Len(w) = 1 /\ w[1] = a
    BY <2>1, <2>2
  <2>4. /\ ResultsOf(w) \in Seq(Seq(CallId)) /\ Len(ResultsOf(w)) = 1
        /\ ResultsOf(w)[1] = m.results
    <3>1. ResultsOf(w) = [j \in 1 .. 1 |-> w[j].results]
      BY <2>3 DEF ResultsOf
    <3>2. \A j \in 1 .. 1 : w[j].results = m.results
      BY <2>2, <2>3
    <3>3. ResultsOf(w) \in [1 .. 1 -> Seq(CallId)] /\ ResultsOf(w)[1] = m.results
      BY <1>1, <3>1, <3>2
    <3> QED
      BY <3>3, FunctionIsSequence
  <2>5. Joined(ResultsOf(w)) = m.results
    BY <2>4, JoinedOne
  <2> QED
    BY <2>2, <2>3, <2>5 DEF w
<1> QED
  BY <1>2, <1>3

\* Every message becomes messages of the wire.
LEMMA WireTypes ==
    ASSUME NEW m \in Message, m.results = <<>> \/ (m.role = "user" /\ m.calls = <<>>)
    PROVE  toWire(m) \in Seq(WireMessage)
<1>1. CASE m.results = <<>>
  <2>1. PICK a \in WireMessage : toWire(m) = <<a>>
    BY <1>1, WireOther
  <2> QED
    BY <2>1
<1>2. CASE m.results # <<>>
  BY <1>2, WireResults
<1> QED
  BY <1>1, <1>2

\* A conversation of whole exchanges is paired on the wire.
LEMMA ExchangesPaired ==
    ASSUME NEW messages \in Seq(Message), Exchanges(messages, Len(messages))
    PROVE  Paired(Joined([i \in 1 .. Len(messages) |-> toWire(messages[i])]))
<1> DEFINE n == Len(messages)
           parts == [i \in 1 .. n |-> toWire(messages[i])]
<1>1. n \in Nat /\ n % 2 = 1 /\ \A i \in 1 .. n : messages[i] \in Message
  BY SequenceOf DEF Exchanges
<1>2. messages[1] = UserText /\ 1 \in 1 .. n
  BY <1>1 DEF Exchanges
<1>3. \A i \in 2 .. n : IF i % 2 = 0 THEN Asks(messages[i])
                        ELSE Answering(messages[i], messages[i - 1])
  BY DEF Exchanges
<1>4. ASSUME NEW i \in 1 .. n
      PROVE  toWire(messages[i]) \in Seq(WireMessage)
  <2>1. \/ messages[i].results = <<>>
        \/ messages[i].role = "user" /\ messages[i].calls = <<>>
    <3>1. CASE i = 1
      BY <1>2, <3>1 DEF UserText
    <3>2. CASE i # 1
      <4>1. i \in 2 .. n
        BY <1>1, <3>2
      <4> QED
        BY <1>3, <4>1 DEF Asks, Answering
    <3> QED
      BY <3>1, <3>2
  <2> QED
    BY <1>1, <2>1, WireTypes
<1>5. parts \in Seq(Seq(WireMessage)) /\ Len(parts) = n
  <2>1. parts \in [1 .. n -> Seq(WireMessage)]
    BY <1>4
  <2> HIDE DEF parts
  <2> QED
    BY <1>1, <2>1, FunctionIsSequence
<1>6. \A i \in 1 .. n : parts[i] = toWire(messages[i])
  OBVIOUS
<1> HIDE DEF parts
<1>7. PICK f \in [0 .. n -> Seq(WireMessage)] : JoinedUpTo(f, parts)
  BY <1>5, JoinedRounds
<1>8. f[0] = <<>> /\ Joined(parts) = f[n] /\ \A i \in 1 .. n : f[i] = f[i - 1] \o parts[i]
  BY <1>5, <1>7 DEF JoinedUpTo
<1> HIDE DEF n
<1> DEFINE T == {k \in Nat : 2 * k + 1 <= n => Paired(f[2 * k + 1])}
<1>9. 0 \in T
  <2>1. UserText \in Message /\ UserText.results = <<>> /\ UserText.role = "user"
    BY <1>1, <1>2 DEF UserText
  <2>2. PICK a \in WireMessage : toWire(UserText) = <<a>> /\ a.role = "user" /\ a.results = <<>>
    BY <2>1, WireOther
  <2>3. f[1] = <<a>>
    <3>1. f[1] = f[0] \o parts[1] /\ parts[1] = <<a>>
      <4>1. f[1] = f[1 - 1] \o parts[1]
        BY <1>2, <1>8
      <4>2. parts[1] = toWire(messages[1])
        BY <1>2, <1>6
      <4> QED
        BY <1>2, <2>2, <4>1, <4>2
    <3>2. <<a>> \in Seq(WireMessage)
      OBVIOUS
    <3>3. <<>> \o <<a>> = <<a>>
      BY ONLY <3>2, Concatenation
    <3> QED
      BY <1>8, <3>1, <3>3
  <2>4. Paired(<<a>>)
    BY <2>2 DEF Paired
  <2> QED
    BY <2>3, <2>4
<1>10. ASSUME NEW k \in Nat, k \in T
       PROVE  k + 1 \in T
  <2> SUFFICES ASSUME 2 * k + 3 <= n PROVE Paired(f[2 * k + 3])
    BY <1>1
  <2> DEFINE q == 2 * k + 2
  <2>1. /\ q \in Nat /\ q - 1 = 2 * k + 1 /\ q + 1 = 2 * k + 3 /\ q % 2 = 0 /\ (q + 1) % 2 # 0
        /\ q \in 2 .. n /\ q + 1 \in 2 .. n /\ q \in 1 .. n /\ q + 1 \in 1 .. n
        /\ q - 1 \in 0 .. n /\ (q + 1) - 1 = q
    BY <1>1
  <2>2. Paired(f[q - 1]) /\ f[q - 1] \in Seq(WireMessage)
    BY <1>1, <1>7, <1>10, <2>1
  <2> HIDE DEF T
  <2>3. f[q + 1] = (f[q - 1] \o parts[q]) \o parts[q + 1]
    <3> HIDE DEF q
    <3>1. f[q] = f[q - 1] \o parts[q] /\ f[q + 1] = f[(q + 1) - 1] \o parts[q + 1]
      BY <1>8, <2>1
    <3> QED
      BY <2>1, <3>1
  <2> HIDE DEF q
  <2>4. Asks(messages[q]) /\ Answering(messages[q + 1], messages[q])
    <3>1. Asks(messages[q])
      BY <1>3, <2>1
    <3>2. Answering(messages[q + 1], messages[(q + 1) - 1])
      BY <1>3, <2>1
    <3> QED
      BY <2>1, <3>1, <3>2
  <2>5. messages[q] \in Message /\ messages[q + 1] \in Message
    BY <1>1, <2>1
  <2>6. PICK a \in WireMessage : /\ parts[q] = <<a>> /\ a.role = "assistant"
                                 /\ Ids(a.calls) = Ids(messages[q].calls)
    <3>1. messages[q].results = <<>> /\ messages[q].role = "assistant"
      BY <2>4 DEF Asks
    <3>2. parts[q] = toWire(messages[q])
      BY <1>6, <2>1
    <3>3. messages[q] \in Message
      BY <2>5
    <3>4. PICK a \in WireMessage : /\ toWire(messages[q]) = <<a>> /\ a.role = messages[q].role
                                   /\ Ids(a.calls) = Ids(messages[q].calls)
      BY ONLY <3>1, <3>3, WireOther
    <3> QED
      BY <3>1, <3>2, <3>4
  <2>7. /\ parts[q + 1] \in Seq(WireMessage)
        /\ \A j \in 1 .. Len(parts[q + 1]) : parts[q + 1][j].role # "assistant"
        /\ Joined(ResultsOf(parts[q + 1])) = Ids(messages[q].calls)
    <3>1. parts[q + 1] = toWire(messages[q + 1])
      BY <1>6, <2>1
    <3>2. /\ messages[q + 1].role = "user" /\ messages[q + 1].calls = <<>>
          /\ messages[q + 1].results = Ids(messages[q].calls)
      BY <2>4 DEF Answering
    <3>3. messages[q + 1].results # <<>>
      <4>1. messages[q].calls # <<>> /\ messages[q].calls \in Seq([id : CallId, name : Received])
        BY <2>4, <2>5 DEF Asks, Message
      <4>2. 1 \in DOMAIN messages[q].calls
        BY <4>1
      <4>3. DOMAIN Ids(messages[q].calls) = DOMAIN messages[q].calls
        BY DEF Ids
      <4> QED
        BY <3>2, <4>2, <4>3
    <3> QED
      BY <2>5, <3>1, <3>2, <3>3, WireResults
  <2>8. Paired((f[q - 1] \o <<a>>) \o parts[q + 1])
    <3> DEFINE w == f[q - 1]
               r == parts[q + 1]
    <3>1. /\ w \in Seq(WireMessage) /\ Paired(w) /\ a.role = "assistant"
          /\ r \in Seq(WireMessage) /\ \A j \in 1 .. Len(r) : r[j].role # "assistant"
          /\ Joined(ResultsOf(r)) = Ids(a.calls)
      BY <2>2, <2>6, <2>7
    <3> HIDE DEF w, r
    <3>2. Paired((w \o <<a>>) \o r)
      BY <3>1, PairedExchange
    <3> QED
      BY <3>2 DEF w, r
  <2> QED
    BY <2>1, <2>3, <2>6, <2>8
<1> HIDE DEF T
<1>11. PICK k \in Nat : n = 2 * k + 1
  <2>1. n \div 2 \in Nat /\ n = 2 * (n \div 2) + 1
    BY <1>1
  <2> QED
    BY <2>1
<1>12. k \in T
  BY <1>9, <1>10, AllNaturals
<1>13. Paired(f[n])
  BY <1>1, <1>11, <1>12 DEF T
<1> QED
  BY <1>8, <1>13 DEF parts, n

\* What makes a conversation one of whole exchanges.
LEMMA WholeExchanges ==
    ASSUME NEW messages \in Seq(Message), Len(messages) % 2 = 1, messages[1] = UserText,
           \A i \in 2 .. Len(messages) :
               IF i % 2 = 0 THEN Asks(messages[i]) ELSE Answering(messages[i], messages[i - 1])
    PROVE  Exchanges(messages, Len(messages))
<1>1. Len(messages) \in Nat /\ DOMAIN messages = 1 .. Len(messages) /\ Len(messages) # 0
  OBVIOUS
<1> QED
  BY <1>1 DEF Exchanges

\* The answer to the last question completes its exchange.
LEMMA ExchangeAnswered ==
    ASSUME NEW messages \in Seq(Message), NEW m \in Message,
           Exchanges(messages, Len(messages) - 1),
           Asks(messages[Len(messages)]), Answering(m, messages[Len(messages)])
    PROVE  /\ Append(messages, m) \in Seq(Message)
           /\ Exchanges(Append(messages, m), Len(Append(messages, m)))
<1> DEFINE L == Len(messages)
           more == Append(messages, m)
<1>1. /\ L \in Nat /\ more \in Seq(Message) /\ Len(more) = L + 1 /\ more[L + 1] = m
      /\ \A i \in 1 .. L : more[i] = messages[i]
  OBVIOUS
<1>2. (L - 1) % 2 = 1 /\ L - 1 >= 1 /\ messages[1] = UserText
  <2>1. L - 1 \in DOMAIN messages /\ (L - 1) % 2 = 1 /\ messages[1] = UserText
    BY DEF Exchanges
  <2> QED
    BY <2>1, SequenceOf
<1>3. \A i \in 2 .. (L - 1) : IF i % 2 = 0 THEN Asks(messages[i])
                              ELSE Answering(messages[i], messages[i - 1])
  BY DEF Exchanges
<1>4. Asks(messages[L]) /\ Answering(m, messages[L])
  OBVIOUS
<1> HIDE DEF L, more
<1>5. L % 2 = 0 /\ (L + 1) % 2 = 1 /\ L >= 2
  <2>1. PICK p \in Nat : p = L - 1
    BY <1>1, <1>2
  <2>2. p % 2 = 1 /\ L = p + 1 /\ p >= 1
    BY <1>1, <1>2, <2>1
  <2>3. (p + 1) % 2 = 0 /\ ((p + 1) + 1) % 2 = 1
    BY <2>2
  <2> QED
    BY <2>2, <2>3
<1>6. ASSUME NEW i \in 2 .. (L + 1)
      PROVE  IF i % 2 = 0 THEN Asks(more[i]) ELSE Answering(more[i], more[i - 1])
  <2>1. CASE i = L + 1
    <3>1. more[i] = m /\ more[i - 1] = messages[L]
      BY <1>1, <1>5, <2>1
    <3>2. i % 2 # 0
      BY <1>5, <2>1
    <3> QED
      BY <1>4, <3>1, <3>2
  <2>2. CASE i = L
    <3>1. more[i] = messages[L]
      BY <1>1, <1>5, <2>2
    <3>2. i % 2 = 0
      BY <1>5, <2>2
    <3> QED
      BY <1>4, <3>1, <3>2
  <2>3. CASE i \in 2 .. (L - 1)
    <3>1. i \in 1 .. L /\ i - 1 \in 1 .. L
      BY <1>1, <2>3
    <3>2. more[i] = messages[i] /\ more[i - 1] = messages[i - 1]
      BY <1>1, <3>1
    <3> QED
      BY <1>3, <2>3, <3>2
  <2>4. i = L + 1 \/ i = L \/ i \in 2 .. (L - 1)
    BY <1>1
  <2> QED
    BY <2>1, <2>2, <2>3, <2>4
<1>7. more[1] = UserText
  BY <1>1, <1>2, <1>5
<1>8. Exchanges(more, Len(more))
  BY <1>1, <1>5, <1>6, <1>7, WholeExchanges
<1> QED
  BY <1>1, <1>8 DEF more

\* Pruning drops whole exchanges from behind the prompt.
LEMMA PrunedExchanges ==
    ASSUME NEW messages \in Seq(Message), Exchanges(messages, Len(messages))
    PROVE  /\ pruneConversation(messages) \in Seq(Message)
           /\ Exchanges(pruneConversation(messages), Len(pruneConversation(messages)))
<1> DEFINE L == Len(messages)
           d == L - 2 * KeepPairs - 1
           kept == pruneConversation(messages)
<1>1. /\ L \in Nat /\ KeepPairs \in Nat /\ L % 2 = 1 /\ messages[1] = UserText
      /\ \A i \in 1 .. L : messages[i] \in Message
  BY ProviderConstants, SequenceOf DEF Exchanges
<1>2. \A i \in 2 .. L : IF i % 2 = 0 THEN Asks(messages[i])
                        ELSE Answering(messages[i], messages[i - 1])
  BY DEF Exchanges
<1>3. CASE L <= 2 * KeepPairs + 1
  BY <1>3 DEF pruneConversation
<1>4. CASE ~ (L <= 2 * KeepPairs + 1)
  <2> DEFINE tail == SubSeq(messages, L - 2 * KeepPairs + 1, L)
             K == 2 * KeepPairs
  <2>1. kept = <<messages[1]>> \o tail
    BY <1>4 DEF pruneConversation
  <2>2. /\ tail \in Seq(Message) /\ Len(tail) = K
        /\ \A i \in 1 .. K : tail[i] = messages[L - K + i]
    <3> DEFINE b == L - 2 * KeepPairs + 1
    <3>1. b \in 1 .. (L + 1) /\ L - b + 1 = K /\ b - 1 = L - K /\ K \in Nat
      BY <1>1, <1>4
    <3>2. tail = SubSeq(messages, b, L)
      OBVIOUS
    <3> HIDE DEF b, K, L, tail
    <3>3. /\ tail \in Seq(Message) /\ Len(tail) = L - b + 1
          /\ \A i \in 1 .. (L - b + 1) : tail[i] = messages[(b - 1) + i]
      BY <3>1, <3>2, EndPart DEF L
    <3> QED
      BY <3>1, <3>3
  <2>3. <<messages[1]>> \in Seq(Message) /\ Len(<<messages[1]>>) = 1 /\ <<messages[1]>>[1] = messages[1]
    BY <1>1, <1>4
  <2> DEFINE first == <<messages[1]>>
  <2>4. first \in Seq(Message) /\ Len(first) = 1 /\ first[1] = messages[1] /\ kept = first \o tail
    BY <2>1, <2>3
  <2>5. d \in Nat /\ d >= 1 /\ d % 2 = 0 /\ K \in Nat /\ (K + 1) % 2 = 1 /\ L - K = d + 1
    BY <1>1, <1>4
  <2> HIDE DEF kept, first, tail, d, K, L
  <2>6. /\ first \o tail \in Seq(Message) /\ Len(first \o tail) = Len(first) + Len(tail)
        /\ \A i \in 1 .. Len(first) : (first \o tail)[i] = first[i]
        /\ \A i \in 1 .. Len(tail) : (first \o tail)[Len(first) + i] = tail[i]
    <3>1. first \in Seq(Message) /\ tail \in Seq(Message)
      BY <2>2, <2>4
    <3> QED
      BY ONLY <3>1, Concatenation
  <2>7. kept \in Seq(Message) /\ Len(kept) = K + 1 /\ kept[1] = UserText
    BY <1>1, <2>2, <2>4, <2>5, <2>6
  <2>8. ASSUME NEW i \in 2 .. (K + 1)
        PROVE  kept[i] = messages[d + i]
    <3>1. i - 1 \in 1 .. K /\ i = 1 + (i - 1) /\ L - K + (i - 1) = d + i
      BY <1>1, <2>5
    <3>2. kept[1 + (i - 1)] = tail[i - 1]
      BY <2>2, <2>4, <2>6, <3>1
    <3> QED
      BY <2>2, <3>1, <3>2
  <2>9. ASSUME NEW i \in 2 .. (K + 1)
        PROVE  IF i % 2 = 0 THEN Asks(kept[i]) ELSE Answering(kept[i], kept[i - 1])
    <3>1. d + i \in 2 .. L /\ (d + i) % 2 = i % 2 /\ (d + i) - 1 = d + (i - 1)
      BY <1>1, <2>5
    <3>2. kept[i] = messages[d + i]
      BY <2>8
    <3>3. CASE i % 2 = 0
      BY <1>2, <3>1, <3>2, <3>3
    <3>4. CASE i % 2 # 0
      <4>1. i - 1 \in 2 .. (K + 1)
        BY <2>5, <3>4
      <4>2. kept[i - 1] = messages[d + (i - 1)]
        BY <2>8, <4>1
      <4>3. Answering(messages[d + i], messages[(d + i) - 1])
        BY <1>2, <3>1, <3>4
      <4> QED
        BY <3>1, <3>2, <3>4, <4>2, <4>3
    <3> QED
      BY <3>3, <3>4
  <2>10. Exchanges(kept, Len(kept))
    BY <2>5, <2>7, <2>9, WholeExchanges
  <2> QED
    BY <2>7, <2>10 DEF kept
<1> QED
  BY <1>3, <1>4

\* The initial state satisfies the invariant.
LEMMA ProviderInvInit == ProviderInit => ProviderInv
<1> SUFFICES ASSUME ProviderInit PROVE ProviderInv
  OBVIOUS
<1>1. ProviderTypeOK
  <2>1. 0 \in 0 .. MaxRetries /\ 0 \in 0 .. MaxTurns
    BY ProviderConstants
  <2>2. <<>> \in Seq(Message) /\ {} \in SUBSET Received
    OBVIOUS
  <2> QED
    BY <2>1, <2>2 DEF ProviderInit, ProviderTypeOK, NoChat
<1>2. chat.pc = "idle" /\ chat.lookups = {}
  BY DEF ProviderInit, NoChat
<1> QED
  BY <1>1, <1>2 DEF ProviderInv, ConversationSurvives, WirePaired, CallsFindTheirTool

\* The invariant without the request, which follows from it.
ConversationInv ==
    /\ ProviderTypeOK
    /\ chat.pc = "send" => Exchanges(chat.messages, Len(chat.messages))
    /\ chat.pc = "tools" => /\ Exchanges(chat.messages, Len(chat.messages) - 1)
                            /\ Asks(chat.messages[Len(chat.messages)])

\* Whole exchanges are enough for the request and for the names.
LEMMA ConversationEnough == ConversationInv => ProviderInv
<1> SUFFICES ASSUME ConversationInv PROVE ConversationSurvives
  BY DEF ConversationInv, ProviderInv
<1>1. WirePaired
  <2> SUFFICES ASSUME chat.pc = "send" PROVE Paired(buildRequest.messages)
    BY DEF WirePaired
  <2>1. chat.messages \in Seq(Message) /\ Exchanges(chat.messages, Len(chat.messages))
    BY DEF ConversationInv, ProviderTypeOK
  <2>2. Paired(Joined([i \in 1 .. Len(chat.messages) |-> toWire(chat.messages[i])]))
    BY <2>1, ExchangesPaired
  <2> QED
    BY <2>2 DEF buildRequest
<1>2. CallsFindTheirTool
  <2>1. chat.lookups \subseteq Received
    BY DEF ConversationInv, ProviderTypeOK
  <2> QED
    BY <2>1, ReceivedNames DEF CallsFindTheirTool
<1> QED
  BY <1>1, <1>2 DEF ConversationSurvives

\* The ids of calls.
LEMMA IdsOf ==
    ASSUME NEW m \in Message
    PROVE  Ids(m.calls) \in Seq(CallId)
<1> DEFINE n == Len(m.calls)
<1>1. m.calls \in Seq([id : CallId, name : Received])
  BY DEF Message
<1>2. n \in Nat /\ DOMAIN m.calls = 1 .. n /\ \A i \in 1 .. n : m.calls[i] \in [id : CallId, name : Received]
  BY <1>1, SequenceOf
<1>3. Ids(m.calls) \in [1 .. n -> CallId]
  BY <1>2 DEF Ids
<1> QED
  BY <1>2, <1>3, FunctionIsSequence

\* One step keeps whole exchanges, and one question more while tools run.
LEMMA ConversationStep == ConversationInv /\ [ProviderNext]_providerVars => ConversationInv'
<1> SUFFICES ASSUME ConversationInv, [ProviderNext]_providerVars
             PROVE  ConversationInv'
  OBVIOUS
<1>1. /\ chat.kind \in Kinds \cup {"none"} /\ chat.pc \in {"idle", "send", "tools", "done", "error"}
      /\ chat.messages \in Seq(Message) /\ chat.attempt \in 0 .. MaxRetries
      /\ chat.turn \in 0 .. MaxTurns /\ chat.lookups \subseteq Received
      /\ chat = [kind |-> chat.kind, pc |-> chat.pc, messages |-> chat.messages,
                 attempt |-> chat.attempt, turn |-> chat.turn, lookups |-> chat.lookups]
      /\ MaxRetries \in Nat /\ MaxTurns \in Nat
  BY ProviderConstants DEF ConversationInv, ProviderTypeOK
<1>2. /\ chat.pc = "send" => Exchanges(chat.messages, Len(chat.messages))
      /\ chat.pc = "tools" => /\ Exchanges(chat.messages, Len(chat.messages) - 1)
                              /\ Asks(chat.messages[Len(chat.messages)])
  BY DEF ConversationInv
<1>3. ASSUME NEW kind \in Kinds, NewProvider(kind)
      PROVE  ConversationInv'
  <2>1. chat' = [kind |-> kind, pc |-> "send", messages |-> <<UserText>>, attempt |-> 0,
                 turn |-> 0, lookups |-> {}]
    BY <1>3 DEF NewProvider, NoChat
  <2>2. UserText \in Message
    BY DEF UserText, Message
  <2>3. <<UserText>> \in Seq(Message) /\ Len(<<UserText>>) = 1 /\ <<UserText>>[1] = UserText
    BY <2>2
  <2>4. Exchanges(<<UserText>>, 1)
    BY <2>3 DEF Exchanges
  <2>5. ProviderTypeOK'
    BY <1>1, <2>1, <2>3 DEF ProviderTypeOK
  <2>6. chat'.pc = "send" /\ chat'.messages = <<UserText>>
    BY <2>1
  <2> QED
    BY <2>3, <2>4, <2>5, <2>6 DEF ConversationInv
<1>4. ASSUME NEW answer, doWithRetry(answer)
      PROVE  ConversationInv'
  <2>1. CASE answer \in {"none", "429", "5xx"} /\ CanRetry
    <3>1. chat' = [chat EXCEPT !.attempt = @ + 1] /\ chat.attempt < MaxRetries
      BY <1>4, <2>1 DEF doWithRetry, CanRetry
    <3>2. chat.attempt + 1 \in 0 .. MaxRetries
      BY <1>1, <3>1
    <3>3. ProviderTypeOK' /\ chat'.pc = chat.pc /\ chat'.messages = chat.messages
      BY <1>1, <3>1, <3>2 DEF ProviderTypeOK
    <3> QED
      BY <1>2, <3>3 DEF ConversationInv
  <2>2. CASE ~ (answer \in {"none", "429", "5xx"} /\ CanRetry)
    <3>1. chat' = [chat EXCEPT !.pc = "error"]
      BY <1>4, <2>2 DEF doWithRetry
    <3>2. ProviderTypeOK' /\ chat'.pc = "error"
      BY <1>1, <3>1 DEF ProviderTypeOK
    <3> QED
      BY <3>2 DEF ConversationInv
  <2> QED
    BY <2>1, <2>2
<1>5. ASSUME NEW n \in 0 .. MaxCalls,
             NEW names \in [1 .. n -> {sanitizeToolName(m) : m \in ToolNames}],
             parseResponse(names)
      PROVE  ConversationInv'
  <2> DEFINE calls == [i \in 1 .. n |-> Call(<<chat.turn, i>>, unsanitizeToolName(names[i]))]
             m == [role |-> "assistant", calls |-> calls, results |-> <<>>]
             pc == IF calls = <<>> THEN "done" ELSE "tools"
             looked == {calls[i].name : i \in 1 .. n}
  <2>1. /\ chat.pc = "send" /\ chat.turn < MaxTurns
        /\ chat' = [chat EXCEPT !.pc = pc, !.turn = @ + 1, !.attempt = 0,
                                !.messages = Append(@, m), !.lookups = looked]
    <3>1. DOMAIN names = 1 .. n /\ DOMAIN calls = 1 .. n
      OBVIOUS
    <3> QED
      BY <1>5, <3>1 DEF parseResponse
  <2>2. ASSUME NEW i \in 1 .. n
        PROVE  Call(<<chat.turn, i>>, unsanitizeToolName(names[i])) \in [id : CallId, name : Received]
    <3>1. PICK t \in ToolNames : names[i] = sanitizeToolName(t)
      OBVIOUS
    <3>2. unsanitizeToolName(names[i]) \in Received
      BY <3>1 DEF Received
    <3>3. <<chat.turn, i>> \in CallId
      <4>1. chat.turn \in Nat /\ i \in Nat
        BY <1>1
      <4> QED
        BY <4>1 DEF CallId
    <3> QED
      BY <3>2, <3>3 DEF Call
  <2>3. n \in Nat /\ calls \in [1 .. n -> [id : CallId, name : Received]]
    BY <2>2
  <2> HIDE DEF calls
  <2>4. calls \in Seq([id : CallId, name : Received])
    BY <2>3, FunctionIsSequence
  <2>5. looked \subseteq Received
    BY <2>3
  <2>6. m \in Message /\ m.role = "assistant" /\ m.calls = calls /\ m.results = <<>>
    BY <2>4 DEF Message
  <2> HIDE DEF m, looked
  <2> DEFINE more == Append(chat.messages, m)
             L == Len(chat.messages)
  <2>7. /\ more \in Seq(Message) /\ Len(more) = L + 1 /\ more[L + 1] = m /\ L \in Nat
        /\ DOMAIN more = 1 .. (L + 1) /\ DOMAIN chat.messages = 1 .. L
        /\ \A i \in 1 .. L : more[i] = chat.messages[i]
    BY <1>1, <2>6
  <2> HIDE DEF more, L
  <2>8. pc \in {"done", "tools"} /\ (pc = "tools" => calls # <<>>)
    OBVIOUS
  <2> HIDE DEF pc
  <2>9. /\ chat'.kind = chat.kind /\ chat'.pc = pc /\ chat'.turn = chat.turn + 1
        /\ chat'.attempt = 0 /\ chat'.messages = more /\ chat'.lookups = looked
        /\ chat' = [kind |-> chat.kind, pc |-> pc, messages |-> more, attempt |-> 0,
                    turn |-> chat.turn + 1, lookups |-> looked]
    BY <1>1, <2>1 DEF more
  <2>10. chat.turn + 1 \in 0 .. MaxTurns /\ 0 \in 0 .. MaxRetries
    BY <1>1, <2>1
  <2>11. ProviderTypeOK'
    BY <1>1, <2>5, <2>7, <2>8, <2>9, <2>10 DEF ProviderTypeOK
  <2>12. Exchanges(more, L)
    <3>1. Exchanges(chat.messages, L)
      BY <1>2, <2>1 DEF L
    <3>2. \A i \in 2 .. L : more[i] = chat.messages[i] /\ more[i - 1] = chat.messages[i - 1]
      BY <2>7
    <3>3. 1 \in 1 .. L /\ L \in 1 .. (L + 1) /\ L % 2 = 1
      BY <2>7, <3>1 DEF Exchanges
    <3>4. more[1] = UserText
      BY <2>7, <3>1, <3>3 DEF Exchanges
    <3> QED
      BY <2>7, <3>1, <3>2, <3>3, <3>4 DEF Exchanges
  <2>13. pc = "tools" => Asks(more[L + 1])
    BY <2>6, <2>7, <2>8 DEF Asks
  <2>14. Len(more) - 1 = L /\ Len(more) = L + 1
    BY <2>7
  <2> QED
    BY <2>8, <2>9, <2>11, <2>12, <2>13, <2>14 DEF ConversationInv
<1>6. ASSUME ToolResults
      PROVE  ConversationInv'
  <2> DEFINE last == chat.messages[Len(chat.messages)]
             m == [role |-> "user", calls |-> <<>>, results |-> Ids(last.calls)]
             kept == pruneConversation(Append(chat.messages, m))
  <2>1. chat.pc = "tools" /\ chat' = [chat EXCEPT !.pc = "send", !.lookups = {}, !.messages = kept]
    BY <1>6 DEF ToolResults
  <2>2. last \in Message
    <3>1. Len(chat.messages) - 1 \in DOMAIN chat.messages
      BY <1>2, <2>1 DEF Exchanges
    <3>2. Len(chat.messages) \in 1 .. Len(chat.messages)
      BY <1>1, <3>1
    <3> QED
      BY <1>1, <3>2, SequenceOf
  <2>3. m \in Message /\ Answering(m, last)
    <3>1. Ids(last.calls) \in Seq(CallId)
      BY <2>2, IdsOf
    <3> HIDE DEF last
    <3>2. <<>> \in Seq([id : CallId, name : Received])
      OBVIOUS
    <3>3. m \in Message
      BY ONLY <3>1, <3>2 DEF Message, m
    <3> QED
      BY <3>3 DEF Answering
  <2>4. kept \in Seq(Message) /\ Exchanges(kept, Len(kept))
    <3> HIDE DEF m
    <3>1. /\ Append(chat.messages, m) \in Seq(Message)
          /\ Exchanges(Append(chat.messages, m), Len(Append(chat.messages, m)))
      BY <1>1, <1>2, <2>1, <2>3, ExchangeAnswered
    <3> QED
      BY <3>1, PrunedExchanges
  <2> HIDE DEF kept, m, last
  <2>5. chat' = [kind |-> chat.kind, pc |-> "send", messages |-> kept, attempt |-> chat.attempt,
                 turn |-> chat.turn, lookups |-> {}]
    BY <1>1, <2>1
  <2>6. ProviderTypeOK' /\ chat'.pc = "send" /\ chat'.messages = kept
    BY <1>1, <2>4, <2>5 DEF ProviderTypeOK
  <2> QED
    BY <2>4, <2>6 DEF ConversationInv
<1>7. ASSUME ChatEnds
      PROVE  ConversationInv'
  <2>1. chat' = NoChat
    BY <1>7 DEF ChatEnds
  <2>2. ProviderTypeOK' /\ chat'.pc = "idle"
    BY <1>1, <2>1 DEF ProviderTypeOK, NoChat
  <2> QED
    BY <2>2 DEF ConversationInv
<1>8. CASE UNCHANGED providerVars
  BY <1>8 DEF providerVars, ConversationInv, ProviderTypeOK
<1> QED
  BY <1>3, <1>4, <1>5, <1>6, <1>7, <1>8 DEF ProviderNext

(* The conversation holds whole exchanges between two steps of a run.      *)
THEOREM ProviderInvariant == ProviderSpec => []ProviderInv
<1>1. ProviderInit => ConversationInv
  BY ProviderInvInit DEF ProviderInv, ConversationInv
<1>2. ProviderSpec => []ConversationInv
  BY <1>1, ConversationStep, PTL DEF ProviderSpec
<1> QED
  BY <1>2, ConversationEnough, PTL

(* In every request to either model service, for any tools and any number  *)
(* of calls, turns and kept exchanges, the calls of an assistant's message *)
(* are answered once and in order before the next assistant's message, and *)
(* a call that comes back is looked up under the name its tool is          *)
(* registered with unless that name has an underscore of its own.          *)
THEOREM ConversationsSurvive == ProviderSpec => []ConversationSurvives
<1>1. ProviderInv => ConversationSurvives
  BY DEF ProviderInv
<1> QED
  BY <1>1, ProviderInvariant, PTL

=============================================================================
