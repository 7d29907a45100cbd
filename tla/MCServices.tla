----------------------------- MODULE MCServices -----------------------------
(***************************************************************************)
(* Finite instances of the services around a run: what triggers it, what   *)
(* it keeps, sends and reports, the quotas, the ways in over HTTP, what    *)
(* shows it, its credentials, tools, model provider and skills. A          *)
(* behaviour is one of one component, chosen by focus, and the others stay *)
(* in their initial states: the components share no state, so their        *)
(* interleavings would show nothing more.                                  *)
(***************************************************************************)
EXTENDS Webhook, AgentState, AgentEvents, Notify, Reporting, Quotas, Access,
        Sessions, Views, RunWait, MCCredentials, RemoteTools, Provider, Skills, TLC

CONSTANTS a1, a2, s1

\* The webhook sources of the agents; one may name a source twice.
MCLists == (a1 :> {<<>>, <<s1>>}) @@ (a2 :> {<<>>, <<s1, s1>>})

MCChannels == <<"slack", "webhook">>
MCChannelTypes == [ops |-> "slack", tg |-> "telegram", hook |-> "webhook", odd |-> "pager"]

\* Tokens: of each group and of two groups, expired, and not a token at all.
Token(groups) == [parses |-> TRUE, iss |-> "ours", aud |-> "ours", exp |-> "future",
                  groups |-> groups]
MCTokens == {Token({"viewers"}), Token({"operators"}), Token({"viewers", "operators"}),
             Token({"admins"}),
             [Token({"admins"}) EXCEPT !.exp = "past"],
             [Token({"admins"}) EXCEPT !.parses = FALSE]}

MCCommands == {<<"systemctl", "restart">>, <<"sudo", "rm">>, <<"sudo", "dd">>,
               <<"cat", "/etc/shadow">>, <<"ls", "/dev/">>}

MCToolNames == {<<"http", ".", "get">>, <<"a2a", ".", "check", "_", "tasks">>}

MCSourceKind == [oci |-> "oci", git |-> "git", cm |-> "configmap", builtin |-> "bundled"]
MCContents == <<"ok", "no-skill", "bad-actions">>

VARIABLE focus

servicesVars == <<focus, webhookVars, stateVars, eventVars, notifyVars,
                  reportVars, quotaVars, accessVars, sessionVars, viewVars,
                  waitVars, credVars, toolVars, providerVars, skillVars>>

ServicesInit ==
    /\ focus \in {"webhook", "state", "events", "notify", "report", "quotas", "access",
                  "sessions", "views", "wait", "credentials", "tools", "provider", "skills"}
    /\ WebhookInit /\ StateInit /\ EventInit /\ NotifyInit
    /\ ReportInit /\ QuotaInit /\ AccessInit /\ SessionInit
    /\ ViewInit /\ WaitInit /\ CredInit /\ ToolInit
    /\ ProviderInit /\ SkillInit

ServicesNext ==
    /\ UNCHANGED focus
    /\ IF focus = "webhook" THEN WebhookNext ELSE UNCHANGED webhookVars
    /\ IF focus = "state" THEN StateNext ELSE UNCHANGED stateVars
    /\ IF focus = "events" THEN EventNext ELSE UNCHANGED eventVars
    /\ IF focus = "notify" THEN NotifyNext ELSE UNCHANGED notifyVars
    /\ IF focus = "report" THEN ReportNext ELSE UNCHANGED reportVars
    /\ IF focus = "quotas" THEN QuotaNext ELSE UNCHANGED quotaVars
    /\ IF focus = "access" THEN AccessNext ELSE UNCHANGED accessVars
    /\ IF focus = "sessions" THEN SessionNext ELSE UNCHANGED sessionVars
    /\ IF focus = "views" THEN ViewNext ELSE UNCHANGED viewVars
    /\ IF focus = "wait" THEN WaitNext ELSE UNCHANGED waitVars
    /\ IF focus = "credentials" THEN CredNext ELSE UNCHANGED credVars
    /\ IF focus = "tools" THEN ToolNext ELSE UNCHANGED toolVars
    /\ IF focus = "provider" THEN ProviderNext ELSE UNCHANGED providerVars
    /\ IF focus = "skills" THEN SkillNext ELSE UNCHANGED skillVars

ServicesSpec == ServicesInit /\ [][ServicesNext]_servicesVars

(* Every component keeps its state within its type, and the inductive      *)
(* invariant its proofs rest on, whatever its callers interleave.          *)
ServicesInv ==
    /\ WebhookInv /\ NotifyInv /\ ViewInv /\ ProviderInv
    /\ ReportInv /\ QuotaInv /\ WaitInv /\ ToolInv /\ SkillInv
    /\ StateInv /\ EventInv /\ AccessInv /\ SessionInv /\ CredInv

=============================================================================
