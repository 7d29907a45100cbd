-------------------------------- MODULE Access --------------------------------
(***************************************************************************)
(* The API server: who may do what, and the one agent it writes to.        *)
(*                                                                         *)
(*   src/internal/api/auth/oidc.go   Middleware, ValidateToken             *)
(*   src/internal/api/rbac/rbac.go   Authorize                             *)
(*   src/internal/api/server.go      the handlers                          *)
(*   src/cmd/main.go                 buildAPIPolicies                      *)
(*                                                                         *)
(* A token is its claims as the validator tells them apart; a user is the  *)
(* set of their groups. Requests run concurrently. The two writing         *)
(* handlers read through the informer cache and update with the version    *)
(* they read; deciding an approval is modelled in Approval.tla, here it is *)
(* a route like the others.                                                *)
(***************************************************************************)
EXTENDS Integers, Sequences, FiniteSets

CONSTANTS
    ApiRequests,    \* requests in flight
    ApiTokens       \* the claims a token may carry

UserGroups == SUBSET STRING

ASSUME AccessConstants == \A t \in ApiTokens : t.groups \in UserGroups

VARIABLES
    api,            \* the handler of each request
    agent,          \* the stored LegatorAgent: paused (its spec) and run-now
    agentCache      \* the informer's copy of it

accessVars == <<api, agent, agentCache>>

\* NewServer and registerRoutes: the routes and the action each one asks for.
Routes == [agents |-> "agents:view", agent |-> "agents:view", run |-> "agents:run",
           runs |-> "runs:view", inventory |-> "inventory:view",
           approvals |-> "approvals:decide", decide |-> "approvals:decide",
           audit |-> "audit:view"]

ApiRoutes == DOMAIN Routes \cup {"healthz"}

AgentObjects == [paused : BOOLEAN, runNow : BOOLEAN]

\* 0: not answered yet.
ApiStatuses == {0, 200, 202, 400, 401, 403, 404, 500}

ApiRec == [pc : {"idle", "authorize", "handle", "update", "done"},
           route : ApiRoutes, groups : UserGroups,
           read : AgentObjects,
           current : BOOLEAN,    \* nothing was written since what it read
           status : ApiStatuses]

AccessTypeOK ==
    /\ api \in [ApiRequests -> ApiRec]
    /\ agent \in AgentObjects
    /\ agentCache \in [object : AgentObjects, current : BOOLEAN]

NoAgent == [paused |-> FALSE, runNow |-> FALSE]

AccessInit ==
    /\ api = [q \in ApiRequests |-> [pc |-> "idle", route |-> "healthz", groups |-> {},
                                     read |-> NoAgent, current |-> FALSE, status |-> 0]]
    /\ agent = NoAgent
    /\ agentCache = [object |-> NoAgent, current |-> TRUE]

-----------------------------------------------------------------------------
(* The authorization engine.                                               *)

\* buildAPIPolicies: in this order, each with one group and no scope.
Policies == << [group |-> "admins", role |-> "admin"],
               [group |-> "operators", role |-> "operator"],
               [group |-> "viewers", role |-> "viewer"] >>

roleRank(r) == CASE r = "viewer" -> 1 [] r = "operator" -> 2 [] r = "admin" -> 3 [] OTHER -> 0

ViewActions == {"agents:view", "runs:view", "inventory:view", "audit:view"}

rolePermits(r, action) ==
    CASE r = "admin" -> TRUE
      [] r = "operator" -> action \in ViewActions \cup
                             {"agents:run", "runs:abort", "approvals:decide", "chat:use"}
      [] r = "viewer" -> action \in ViewActions
      [] OTHER -> FALSE

\* matchesSubject: a "groups" matcher against each of the user's groups.
Matched(groups) == {i \in DOMAIN Policies : Policies[i].group \in groups}

\* Mutant: the last policy that matches decides.
AuthorizeLast(groups, action) ==
    LET last == CHOOSE i \in Matched(groups) : \A j \in Matched(groups) : j <= i
    IN Matched(groups) # {} /\ rolePermits(Policies[last].role, action)

\* Authorize: the first of the highest-ranked matching policies decides, alone.
Authorize(groups, action) ==
    LET Rank(i) == roleRank(Policies[i].role)
        best == CHOOSE i \in Matched(groups) :
                    \A j \in Matched(groups) :
                        Rank(j) <= Rank(i) /\ (j < i => Rank(j) < Rank(i))
    IN Matched(groups) # {} /\ rolePermits(Policies[best].role, action)

\* ValidateToken: a claim that is absent is not checked, except the audience.
ValidateToken(t) ==
    /\ t.parses
    /\ t.iss \in {"absent", "ours"}
    /\ t.aud = "ours"
    /\ t.exp \in {"absent", "future"}

-----------------------------------------------------------------------------
(* A request.                                                              *)

Answered(req, status) ==
    [req EXCEPT !.pc = "done", !.read = NoAgent, !.current = FALSE, !.status = status]

Respond(q, status) == [api EXCEPT ![q] = Answered(api[q], status)]

\* auditMiddleware and Middleware: /healthz bypasses the token.
Middleware(q, route, t) ==
    /\ api[q].pc = "idle"
    /\ api' = [api EXCEPT ![q] =
         [pc |-> IF route = "healthz" \/ ~ValidateToken(t) THEN "done" ELSE "authorize",
          route |-> route, groups |-> t.groups, read |-> NoAgent, current |-> FALSE,
          status |-> IF route = "healthz" THEN 200 ELSE IF ValidateToken(t) THEN 0 ELSE 401]]
    /\ UNCHANGED <<agent, agentCache>>

\* Every handler authorizes first. handleListAgents, handleListRuns,
\* handleListInventory, handleListApprovals and handleAuditTrail then only read;
\* handleGetAgent and handleGetRun may find nothing.
Handle(q) ==
    /\ api[q].pc = "authorize"
    /\ \/ /\ ~Authorize(api[q].groups, Routes[api[q].route])
          /\ api' = Respond(q, 403)
       \/ /\ Authorize(api[q].groups, Routes[api[q].route])
          /\ api' = [api EXCEPT ![q].pc = "handle"]
    /\ UNCHANGED <<agent, agentCache>>

\* A list that fails is a 500, an object that is not there a 404.
Serve(q) ==
    /\ api[q].pc = "handle" /\ api[q].route # "run"
    /\ \/ api' = Respond(q, 200)
       \/ api' = Respond(q, 500)
       \/ api[q].route \in {"agent", "runs", "decide"} /\ api' = Respond(q, 404)
       \/ api[q].route = "decide" /\ api' = Respond(q, 400)
    /\ UNCHANGED <<agent, agentCache>>

\* handleRunAgent: the body, the agent, its annotations ...
handleRunAgent(q) ==
    /\ api[q].pc = "handle" /\ api[q].route = "run"
    /\ \/ api' = Respond(q, 400)
       \/ api' = Respond(q, 404)
       \/ api' = [api EXCEPT ![q] =
            [@ EXCEPT !.pc = "update", !.current = agentCache.current,
                      !.read = [agentCache.object EXCEPT !.runNow = TRUE]]]
    /\ UNCHANGED <<agent, agentCache>>

\* A write makes every copy of the object stale.
WriteAgent(a) ==
    /\ agent' = a
    /\ agentCache' = [agentCache EXCEPT !.current = FALSE]

\* Mutant: the version is not sent with the update.
UpdateBlind(q) ==
    /\ api[q].pc = "update"
    /\ WriteAgent(api[q].read)
    /\ api' = [p \in ApiRequests |-> IF p = q THEN Answered(api[q], 202)
                                     ELSE [api[p] EXCEPT !.current = FALSE]]

\* ... and the Update of the whole object.
UpdateAgent(q) ==
    /\ api[q].pc = "update"
    /\ \/ /\ api[q].current
          /\ WriteAgent(api[q].read)
          /\ api' = [p \in ApiRequests |->
                       IF p = q THEN Answered(api[q], 202)
                       ELSE [api[p] EXCEPT !.current = FALSE]]
       \/ /\ api' = Respond(q, 500)
          /\ UNCHANGED <<agent, agentCache>>

\* External: someone pauses or resumes the agent, the reconciler takes the
\* annotation away, the informer catches up.
AgentEdited ==
    /\ \/ WriteAgent([agent EXCEPT !.paused = ~@])
       \/ agent.runNow /\ WriteAgent([agent EXCEPT !.runNow = FALSE])
    /\ api' = [q \in ApiRequests |-> [api[q] EXCEPT !.current = FALSE]]

AgentCacheSync ==
    /\ ~agentCache.current
    /\ agentCache' = [object |-> agent, current |-> TRUE]
    /\ UNCHANGED <<api, agent>>

AccessNext ==
    \/ \E q \in ApiRequests, r \in ApiRoutes, t \in ApiTokens :
            Middleware(q, r, t)
    \/ \E q \in ApiRequests : Handle(q)
    \/ \E q \in ApiRequests : Serve(q)
    \/ \E q \in ApiRequests : handleRunAgent(q)
    \/ \E q \in ApiRequests : UpdateAgent(q)
    \/ AgentEdited
    \/ AgentCacheSync

AccessSpec == AccessInit /\ [][AccessNext]_accessVars

-----------------------------------------------------------------------------
Passed(req) ==
    req.pc \in {"handle", "update"} \/ req.status \in {200, 202, 400, 404, 500}

\* What a request has been told and holds, when the agent is stored.
RequestSound(req, stored) ==
    LET permitted == Authorize(req.groups, Routes[req.route]) IN
    /\ req.pc \in {"authorize", "handle", "update"} => req.route # "healthz"
    /\ Passed(req) => req.route = "healthz" \/ permitted
    /\ req.status = 403 => req.route # "healthz" /\ ~permitted
    /\ req.pc # "done" => req.status = 0
    /\ req.pc = "update" => req.read.runNow
    /\ req.pc = "update" /\ req.current => req.read.paused = stored.paused

(* What was authorized, and what was read, still holds when it is used: a  *)
(* request is past Authorize, or was refused, as the policies say, and a   *)
(* copy of the agent that is current is the stored agent.                  *)
AccessInv ==
    /\ AccessTypeOK
    /\ agentCache.current => agentCache.object = agent
    /\ \A q \in ApiRequests : RequestSound(api[q], agent)

(* What a user may do does not depend on the order of the policies, and a  *)
(* further group never takes a permission away: of two requests on one     *)
(* route, one by a user in all the other's groups is not forbidden what    *)
(* the other one was allowed. And a request is past Authorize only when a  *)
(* group of its user carries a role that permits it.                       *)
MoreGroupsMorePermissions ==
    /\ \A q, p \in ApiRequests :
        /\ api[q].route = api[p].route /\ api[q].groups \subseteq api[p].groups
        /\ Passed(api[q])
        => api[p].status # 403
    /\ \A q \in ApiRequests :
        api[q].pc \in {"handle", "update"} =>
          \E i \in DOMAIN Policies : /\ Policies[i].group \in api[q].groups
                                     /\ rolePermits(Policies[i].role, Routes[api[q].route])

(* Triggering a run through the API never undoes what someone else wrote   *)
(* to the agent between the handler's read, from a cache that may be       *)
(* stale, and its update of the whole object: its step leaves the spec as  *)
(* it is stored.                                                           *)
TriggerKeepsSpec ==
    [][(\E q \in ApiRequests : api[q].status = 0 /\ api'[q].status = 202)
          => agent'.paused = agent.paused /\ agent'.runNow]_accessVars

=============================================================================
