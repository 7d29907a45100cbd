------------------------------- MODULE Runner -------------------------------
(***************************************************************************)
(* A run of an agent: Runner.Execute, the conversation loop with the       *)
(* language model, the guardrails around every tool call, and the          *)
(* LegatorRun object that records it all.                                  *)
(*                                                                         *)
(*   src/internal/runner/runner.go   Execute, conversationLoop, finalizeRun*)
(*   src/internal/engine/engine.go   CooldownTracker                       *)
(*   src/cmd/main.go                 RunConfigFactory (what a run is given)*)
(*                                                                         *)
(* The model decides nothing the code does not: what the language model    *)
(* asks for, what an approver answers, which operation fails and when the  *)
(* run's context expires are all inputs. Module Approval shows when an     *)
(* approval can be answered with Approved.                                 *)
(***************************************************************************)
EXTENDS Guardrails, Sequences

CONSTANTS
    Calls,          \* the tool calls the language model may ask for
    Specs,          \* guardrails an agent may have
    MaxIterations, TokenBudget,
    KeepPairs,      \* maxConversationPairs
    PerCallCap,     \* capMaxTokens: the most output tokens of one response
    InputTokens,    \* input tokens a response may be charged
    MaxCalls,       \* bound: tool calls in one response
    Faults          \* whether the API server and the provider may fail

ASSUME RunnerConstants ==
    /\ Calls \subseteq Call
    /\ Specs \subseteq GuardrailsSpec
    /\ InputTokens \subseteq Nat
    /\ \E m \in InputTokens \cup {0} : \A n \in InputTokens : n <= m
    /\ {MaxIterations, TokenBudget, KeepPairs, PerCallCap} \subseteq Nat \ {0}
    /\ MaxCalls \in Nat
    /\ Faults \in BOOLEAN
    /\ None \notin Tier \cup {"Succeeded", "Failed", "Escalated", "Blocked"}

VARIABLES
    guardrails,  \* spec.guardrails of the agent
    pc,          \* where Execute is
    manual,      \* the run was started by the reconciler, not the scheduler
    ctxDone,     \* the run's context has expired
    iterations,  \* result.iterations
    used,        \* result.totalIn + result.totalOut
    messages,    \* the conversation: role, and the response it belongs to
    calls,       \* the calls of the current response not yet handled
    phase,       \* result.phase
    report,      \* whether result.report is non-empty
    actions,     \* result.actions
    summary,     \* result.guardrails
    cooling,     \* CooldownTracker: (action, target) within its cooldown
    run,         \* the LegatorRun in the API server
    creds,       \* whether dynamic credentials of the run are outstanding
    ran,         \* history variable: the tools executed, each with the
                 \* position of its record in result.actions
    recent       \* history variable: (action, target) executed without an
                 \* approval less than its cooldown ago

loopVars == <<iterations, used, messages, calls, phase, report, actions,
              summary, cooling, ran, recent>>
vars == <<guardrails, pc, manual, ctxDone, loopVars, run, creds>>

Terminal == {"Succeeded", "Failed", "Escalated", "Blocked"}
ActionStatus == {"executed", "blocked", "failed", "skipped",
                 "approved", "denied", "pending-approval"}
ActionRecord == [call : Calls, status : ActionStatus]
MessageRec == [role : {"user", "assistant", "results"}, of : Nat]
Key == (ActionIds \cup Names) \X Targets

TypeOK ==
    /\ guardrails \in Specs
    /\ pc \in {"assemble", "mark", "llm", "calls", "conclude",
               "finalize", "cleanup", "returned"}
    /\ manual \in BOOLEAN /\ ctxDone \in BOOLEAN /\ report \in BOOLEAN
    /\ iterations \in 0..MaxIterations
    /\ used \in Nat
    /\ messages \in Seq(MessageRec)
    /\ calls \in Seq(Calls)
    /\ phase \in Terminal
    /\ actions \in Seq(ActionRecord)
    /\ summary \in [checks : Nat, blocked : Nat, escalations : Nat]
    /\ cooling \subseteq Key /\ recent \subseteq Key
    /\ run \in [phase : Terminal \cup {"", "Running", None},
                actions : Seq(ActionRecord)]
    /\ creds \in BOOLEAN
    /\ ran \in Seq([call : Calls, matched : Entry \cup {None},
                    approved : BOOLEAN, ok : BOOLEAN, at : Nat])

NoRun == [phase |-> None, actions |-> <<>>]

\* A scheduled run comes with an approval manager, if an approval mode is
\* set, and with dynamic credentials, if Vault is configured; a manual run
\* with neither. Engine and cooldown tracker are new.
Init ==
    /\ guardrails \in Specs
    /\ pc = "assemble"
    /\ manual \in BOOLEAN /\ creds \in BOOLEAN
    /\ manual => ~creds
    /\ ctxDone = FALSE
    /\ iterations = 0 /\ used = 0
    /\ messages = <<[role |-> "user", of |-> 0]>> /\ calls = <<>>
    /\ phase = "Succeeded" /\ report = FALSE
    /\ actions = <<>>
    /\ summary = [checks |-> 0, blocked |-> 0, escalations |-> 0]
    /\ cooling = {} /\ recent = {}
    /\ run = NoRun
    /\ ran = <<>>

-----------------------------------------------------------------------------
(* Execute, before the conversation.                                       *)

\* The tool registry cannot be built, or Execute returns because Assemble or
\* the Create of the LegatorRun fails.
StartFails ==
    /\ pc = "assemble"
    /\ pc' = "returned"
    /\ UNCHANGED <<guardrails, manual, ctxDone, loopVars, run, creds>>

\* The status sent with a Create is not stored.
CreateRun ==
    /\ pc = "assemble"
    /\ ~ctxDone
    /\ run' = [phase |-> "", actions |-> <<>>]
    /\ pc' = "mark"
    /\ UNCHANGED <<guardrails, manual, ctxDone, loopVars, creds>>

\* A failed update to Running is logged.
MarkRunning ==
    /\ pc = "mark"
    /\ \/ ~ctxDone /\ run' = [run EXCEPT !.phase = "Running"]
       \/ (Faults \/ ctxDone) /\ UNCHANGED run
    /\ pc' = "llm"
    /\ UNCHANGED <<guardrails, manual, ctxDone, loopVars, creds>>

-----------------------------------------------------------------------------
(* The conversation loop: one call of the provider.                        *)

Message(role, of) == [role |-> role, of |-> of]

\* On the last iteration a user message asks for the report.
Request ==
    IF iterations + 1 < MaxIterations THEN messages
    ELSE Append(messages, Message("user", iterations + 1))

\* Mutant: what remains of the budget is not looked at.
capMaxTokensPerCall(remaining) == PerCallCap

capMaxTokens(remaining) ==
    IF remaining <= 0 \/ remaining > PerCallCap THEN PerCallCap ELSE remaining

\* What one response is charged; its output respects max_tokens.
Usage == {in + out : in \in InputTokens,
                     out \in 0..capMaxTokens(TokenBudget - used)}

InLoop == pc = "llm" /\ iterations < MaxIterations

LoopEnds ==
    /\ pc = "llm"
    /\ iterations = MaxIterations
    /\ pc' = "conclude"
    /\ UNCHANGED <<guardrails, manual, ctxDone, loopVars, run, creds>>

BudgetExhausted ==
    /\ InLoop
    /\ used >= TokenBudget
    /\ iterations' = iterations + 1
    /\ phase' = "Failed" /\ report' = TRUE
    /\ pc' = "conclude"
    /\ UNCHANGED <<guardrails, manual, ctxDone, used, messages, calls, actions,
                   summary, cooling, ran, recent, run, creds>>

CompleteFails ==
    /\ InLoop
    /\ used < TokenBudget
    /\ Faults \/ ctxDone
    /\ iterations' = iterations + 1
    /\ messages' = Request
    /\ phase' = "Failed" /\ report' = TRUE
    /\ pc' = "conclude"
    /\ UNCHANGED <<guardrails, manual, ctxDone, used, calls, actions, summary,
                   cooling, ran, recent, run, creds>>

\* The response has no tool calls: its text, maybe empty, is the report.
CompleteReport ==
    /\ InLoop
    /\ used < TokenBudget
    /\ ~ctxDone
    /\ iterations' = iterations + 1
    /\ \E n \in Usage : used' = used + n
    /\ messages' = Append(Request, Message("assistant", iterations + 1))
    /\ report' \in BOOLEAN
    /\ pc' = "conclude"
    /\ UNCHANGED <<guardrails, manual, ctxDone, calls, phase, actions, summary,
                   cooling, ran, recent, run, creds>>

\* The response has tool calls, on the last iteration too if it comes to it.
CompleteCalls ==
    /\ InLoop
    /\ used < TokenBudget
    /\ ~ctxDone
    /\ iterations' = iterations + 1
    /\ \E n \in Usage : used' = used + n
    /\ messages' = Append(Request, Message("assistant", iterations + 1))
    /\ \E k \in 1..MaxCalls : calls' \in [1..k -> Calls]
    /\ pc' = "calls"
    /\ UNCHANGED <<guardrails, manual, ctxDone, phase, report, actions, summary,
                   cooling, ran, recent, run, creds>>

\* Mutant: one message too few is kept.
pruneConversationOddly(msgs) ==
    IF Len(msgs) <= 2 * KeepPairs THEN msgs
    ELSE <<Head(msgs)>> \o SubSeq(msgs, Len(msgs) - 2 * KeepPairs + 2, Len(msgs))

\* The first message and the last KeepPairs exchanges.
pruneConversation(msgs) ==
    IF Len(msgs) <= 2 * KeepPairs + 1 THEN msgs
    ELSE <<Head(msgs)>> \o SubSeq(msgs, Len(msgs) - 2 * KeepPairs + 1, Len(msgs))

CallsDone ==
    /\ pc = "calls"
    /\ calls = <<>>
    /\ messages' = pruneConversation(Append(messages, Message("results", iterations)))
    /\ pc' = "llm"
    /\ UNCHANGED <<guardrails, manual, ctxDone, iterations, used, calls, phase,
                   report, actions, summary, cooling, ran, recent, run, creds>>

-----------------------------------------------------------------------------
(* The conversation loop: one tool call.                                   *)

\* The engine's decision on the next call of the response.
Decision(matched) == Evaluate(Head(calls), matched, guardrails, cooling)

NextCall(matched) ==
    /\ pc = "calls"
    /\ calls # <<>>
    /\ matched \in matchAction(Head(calls))

\* Mutant: a tool that failed is not recorded.
RecordSuccesses(status, blocked, escalations) ==
    /\ actions' = IF status = "failed" THEN actions
                  ELSE Append(actions, [call |-> Head(calls), status |-> status])
    /\ summary' = [checks |-> summary.checks + 1,
                   blocked |-> summary.blocked + blocked,
                   escalations |-> summary.escalations + escalations]
    /\ calls' = Tail(calls)
    /\ UNCHANGED <<guardrails, pc, manual, ctxDone, iterations, used, messages,
                   phase, report, run, creds>>

Record(status, blocked, escalations) ==
    /\ actions' = Append(actions, [call |-> Head(calls), status |-> status])
    /\ summary' = [checks |-> summary.checks + 1,
                   blocked |-> summary.blocked + blocked,
                   escalations |-> summary.escalations + escalations]
    /\ calls' = Tail(calls)
    /\ UNCHANGED <<guardrails, pc, manual, ctxDone, iterations, used, messages,
                   phase, report, run, creds>>

\* ToolRegistry.Execute returns a result, or an error.
Execute(matched, approved, ok) ==
    /\ ran' = Append(ran, [call |-> Head(calls), matched |-> matched,
                           approved |-> approved, ok |-> ok,
                           at |-> Len(actions) + 1])
    /\ recent' = IF ok /\ ~approved /\ matched # None /\ matched.cooldown
                 THEN recent \cup {<<matched.id, Head(calls).target>>} ELSE recent

AsksApproval(matched) == Decision(matched).needsApproval /\ ~manual

\* RequestApproval is answered with Denied, or with Expired or an error: the
\* only outcome once the context has expired.
CallRefused(matched) ==
    /\ NextCall(matched)
    /\ AsksApproval(matched)
    /\ \E status \in {"blocked"} \cup (IF ctxDone THEN {} ELSE {"denied"}) :
         Record(status, 1, 0)
    /\ UNCHANGED <<cooling, ran, recent>>

\* It is answered with Approved; the execution is recorded for the cooldown
\* under the name of the tool.
CallApproved(matched) ==
    \E ok \in BOOLEAN :
        /\ NextCall(matched)
        /\ AsksApproval(matched)
        /\ ~ctxDone
        /\ Record(IF ok THEN "approved" ELSE "failed", 0, 0)
        /\ Execute(matched, TRUE, ok)
        /\ cooling' = IF ok THEN cooling \cup {<<Head(calls).tool, Head(calls).target>>}
                            ELSE cooling

CallBlocked(matched) ==
    /\ NextCall(matched)
    /\ ~AsksApproval(matched)
    /\ ~Decision(matched).allowed
    /\ Record(Decision(matched).status, 1, IF guardrails.escalation THEN 1 ELSE 0)
    /\ UNCHANGED <<cooling, ran, recent>>

\* Mutant: the execution is recorded under the name of the tool.
CallExecutedByTool(matched) ==
    \E ok \in BOOLEAN :
        /\ NextCall(matched)
        /\ Decision(matched).allowed
        /\ Record(IF ok THEN "executed" ELSE "failed", 0, 0)
        /\ Execute(matched, FALSE, ok)
        /\ cooling' = IF ok THEN cooling \cup {<<Head(calls).tool, Head(calls).target>>}
                            ELSE cooling

CallExecuted(matched) ==
    \E ok \in BOOLEAN :
        /\ NextCall(matched)
        /\ Decision(matched).allowed
        /\ Record(IF ok THEN "executed" ELSE "failed", 0, 0)
        /\ Execute(matched, FALSE, ok)
        /\ cooling' = IF ok /\ matched # None
                      THEN cooling \cup {<<matched.id, Head(calls).target>>}
                      ELSE cooling

-----------------------------------------------------------------------------
(* The end of the run.                                                     *)

Statuses == {actions[i].status : i \in DOMAIN actions}

\* The phase after the three checks that follow the loop.
FinalPhase ==
    LET exhausted == iterations >= MaxIterations /\ phase = "Succeeded" /\ ~report
        ended == IF exhausted THEN "Failed" ELSE phase
    IN  IF summary.blocked > 0 /\ actions # <<>> /\ "executed" \notin Statuses
        THEN "Blocked"
        ELSE IF summary.escalations > 0 /\ ended = "Succeeded" THEN "Escalated"
        ELSE ended

Conclude ==
    /\ pc = "conclude"
    /\ phase' = FinalPhase
    /\ report' = (report \/ (iterations >= MaxIterations /\ phase = "Succeeded"))
    /\ pc' = "finalize"
    /\ UNCHANGED <<guardrails, manual, ctxDone, iterations, used, messages,
                   calls, actions, summary, cooling, ran, recent, run, creds>>

\* The API server validates the status of every action against the enum of
\* the LegatorRun resource.
StoredStatus == {"executed", "blocked", "failed", "skipped"}

finalizeRun ==
    /\ pc = "finalize"
    /\ \/ /\ Statuses \subseteq StoredStatus
          /\ run' = [phase |-> phase, actions |-> actions]
       \/ /\ Faults \/ ~(Statuses \subseteq StoredStatus)
          /\ UNCHANGED run
    /\ pc' = "cleanup"
    /\ UNCHANGED <<guardrails, manual, ctxDone, loopVars, creds>>

\* Mutant: only a run that succeeded is cleaned up.
CleanupSucceeded ==
    /\ pc = "cleanup"
    /\ creds' = (creds /\ phase # "Succeeded")
    /\ pc' = "returned"
    /\ UNCHANGED <<guardrails, manual, ctxDone, loopVars, run>>

\* A lease that cannot be revoked is logged and forgotten.
Cleanup ==
    /\ pc = "cleanup"
    /\ creds' \in {FALSE} \cup (IF Faults THEN {creds} ELSE {})
    /\ pc' = "returned"
    /\ UNCHANGED <<guardrails, manual, ctxDone, loopVars, run>>

-----------------------------------------------------------------------------
(* The environment.                                                        *)

ContextExpires ==
    /\ pc \notin {"finalize", "cleanup", "returned"}
    /\ ~ctxDone
    /\ ctxDone' = TRUE
    /\ UNCHANGED <<guardrails, pc, manual, loopVars, run, creds>>

CooldownLapses(key) ==
    /\ cooling' = cooling \ {key}
    /\ recent' = recent \ {key}
    /\ UNCHANGED <<guardrails, pc, manual, ctxDone, iterations, used, messages,
                   calls, phase, report, actions, summary, run, creds, ran>>

\* The process dies. What is in the API server stays as it is.
Crash ==
    /\ Faults
    /\ pc # "returned"
    /\ pc' = "returned"
    /\ UNCHANGED <<guardrails, manual, ctxDone, loopVars, run, creds>>

CallStep ==
    \/ CallsDone
    \/ \E matched \in Entry \cup {None} :
         CallRefused(matched) \/ CallApproved(matched)
           \/ CallBlocked(matched) \/ CallExecuted(matched)

RunStep ==
    \/ StartFails \/ CreateRun \/ MarkRunning
    \/ LoopEnds \/ BudgetExhausted \/ CompleteFails \/ CompleteReport
    \/ CompleteCalls \/ CallStep
    \/ Conclude \/ finalizeRun \/ Cleanup

Next ==
    \/ RunStep \/ ContextExpires \/ Crash
    \/ \E key \in cooling \cup recent : CooldownLapses(key)

Spec == Init /\ [][Next]_vars

\* Execute is one goroutine, and every call it makes that can block is
\* bounded by the run's context or by a timeout of its own.
FairSpec == Spec /\ WF_vars(RunStep)

-----------------------------------------------------------------------------
(* Safety.                                                                 *)

RanEntries == {ran[i] : i \in DOMAIN ran}

\* Whatever the language model asks for and whatever happened before, a tool
\* only executes if no data protection rule stops it and either it is within
\* the agent's autonomy, allow-listed, declared in the Action Sheet and not
\* denied (reads need no declaration), or it was above the autonomy and a
\* scheduled run had it approved under an approval mode: no path around
\* Engine.Evaluate in conversationLoop.
ExecutedWithinAuthority ==
    \A e \in RanEntries :
        LET tier == CallTier(e.call, e.matched)
            within == ~checkAutonomy(tier, guardrails.autonomy)
        IN  /\ ~e.call.protected /\ e.call.class # "blocked"
            /\ ~(e.call.dataResource /\ tier # "read")
            /\ ~(e.call.dataNamespace /\ tier = "destructive-mutation")
            /\ IF e.approved
               THEN ~within /\ ~manual /\ guardrails.approvalMode \notin {"", "none"}
               ELSE /\ within /\ ~e.call.denied
                    /\ tier = "read" \/ (e.call.allowed /\ e.matched # None)

Attempted(record) == record.status \in {"executed", "approved", "failed"}

\* The records list every tool executed, in order and with how it ended, no
\* other record claims an execution, and there is one for every check.
Lists(records) ==
    /\ Len(records) = summary.checks
    /\ \A i \in DOMAIN ran :
         /\ ran[i].at \in DOMAIN records
         /\ records[ran[i].at].call = ran[i].call
         /\ records[ran[i].at].status \in IF ran[i].ok THEN {"executed", "approved"}
                                                      ELSE {"failed"}
    /\ \A i, j \in DOMAIN ran : i < j => ran[i].at < ran[j].at
    /\ \A k \in DOMAIN records :
         Attempted(records[k]) => \E i \in DOMAIN ran : ran[i].at = k

\* A LegatorRun that reached a terminal phase is the audit trail: it lists
\* every tool the run executed, in order and with how it ended, and exactly
\* the calls the guardrails checked (finalizeRun writes result.actions).
AuditComplete == run.phase \in Terminal => Lists(run.actions)

\* A run overshoots its token budget by no more than the input of one
\* request: the budget is checked before every request and capMaxTokens
\* never lets the output exceed what remains.
OvershootBounded == used <= TokenBudget + Max(InputTokens \cup {0})

\* Every request the provider is sent keeps the task instruction first,
\* stays within the pruned length and has each message with tool results
\* directly after the response that asked for them, which the providers'
\* APIs demand (pruneConversation cuts whole exchanges).
ToolResultsPaired ==
    InLoop =>
        /\ messages[1] = Message("user", 0)
        /\ Len(messages) <= 2 * KeepPairs + 1
        /\ \A i \in DOMAIN messages :
             messages[i].role = "results" =>
                 messages[i - 1] = Message("assistant", messages[i].of)

\* The first n messages are the instruction and whole exchanges.
Exchanges(n) ==
    /\ n >= 1 /\ n % 2 = 1 /\ n <= Len(messages) /\ n <= 2 * KeepPairs + 1
    /\ messages[1] = Message("user", 0)
    /\ \A i \in 2..n :
         IF i % 2 = 0 THEN messages[i].role = "assistant"
         ELSE messages[i] = Message("results", messages[i - 1].of)

\* Why the safety properties hold. Between a response and its results the
\* conversation ends with that response; the records are complete at every
\* moment, and a run in a terminal phase was given them at its end; what was
\* executed within its cooldown is known to the tracker.
RunnerInv ==
    /\ TypeOK
    /\ ExecutedWithinAuthority /\ OvershootBounded
    /\ Lists(actions)
    /\ run.phase \in Terminal => pc \in {"cleanup", "returned"} /\ run.actions = actions
    /\ recent \subseteq cooling
    /\ pc \in {"assemble", "mark", "llm"} /\ iterations < MaxIterations =>
         Exchanges(Len(messages))
    /\ pc = "calls" /\ iterations < MaxIterations =>
         /\ Exchanges(Len(messages) - 1)
         /\ messages[Len(messages)] = Message("assistant", iterations)

\* Within a run an action is not executed again on a target before its
\* cooldown has passed, however the calls are spread over responses: the
\* execution is recorded under the key checkCooldown looks up.
CooldownRespected ==
    [][(Len(ran') = Len(ran) + 1) =>
         LET e == ran'[Len(ran')] IN
         ~e.approved /\ e.matched # None /\ e.matched.cooldown
           => <<e.matched.id, e.call.target>> \notin recent]_vars

-----------------------------------------------------------------------------
(* Liveness.                                                               *)

\* Every run ends: the loop is bounded by its iterations and every exit of it
\* leads through finalizeRun and Cleanup back to the caller.
RunTerminates == <>(pc = "returned")

\* Every LegatorRun that was created reaches a terminal phase, when no update
\* of it fails.
RunIsFinalised == (run.phase \in {"", "Running"}) ~> (run.phase \in Terminal)

\* The credentials of a run that got as far as its LegatorRun are revoked,
\* whatever ends it, when the revocation does not fail.
CredentialsRevoked == (creds /\ run # NoRun) ~> ~creds

\* Execute runs to its end, whatever ends the loop: it returns, the LegatorRun
\* is in a terminal phase, and the credentials are given back.
RunCompletes == RunTerminates /\ RunIsFinalised /\ CredentialsRevoked

-----------------------------------------------------------------------------
(* What the documentation promises.                                        *)

\* "Data mutations are NEVER automated. No autonomy level unlocks them. No
\* configuration overrides them." (docs/data-protection.md)
DataNeverMutated ==
    \A e \in RanEntries : CallTier(e.call, e.matched) # "data-mutation"

\* "Every guardrail decision is recorded in the LegatorRun CR"
\* (docs/guardrails.md): the decisions of a run that has ended are in it.
DecisionsRecorded ==
    (pc = "cleanup") => run.actions = actions

=============================================================================
