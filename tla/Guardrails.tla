----------------------------- MODULE Guardrails -----------------------------
(***************************************************************************)
(* The decision Engine.Evaluate takes on one tool call.                    *)
(*                                                                         *)
(*   src/internal/engine/engine.go        Evaluate and its checks          *)
(*   src/internal/engine/dataprotect.go   checkDataProtection,             *)
(*                                        checkDataResourceImpact          *)
(*                                                                         *)
(* A call is what the checks can tell of its tool name and target: which   *)
(* entries of the Action Sheet match it, which rules and lists apply.      *)
(***************************************************************************)
EXTENDS Integers, FiniteSetsExt

CONSTANTS
    ActionIds,   \* entries of the Action Sheet
    Names,       \* tool names
    Targets,     \* targets of tool calls
    None

Tier == {"read", "service-mutation", "destructive-mutation", "data-mutation"}
Autonomy == {"observe", "recommend", "automate-safe", "automate-destructive"}
ApprovalMode == {"", "none", "mutation-gate", "plan-first", "every-action"}

\* sheet: the matching Action Sheet entries, with their tier and whether
\* they have a valid cooldown; byName: the tier the name suggests;
\* protected: a hardcoded data protection rule matches; class: what a
\* ClassifiableTool says of it; the rest: data resources, deny and allow list.
Entry == [id : ActionIds, tier : Tier \cup {"unknown"}, cooldown : BOOLEAN]
Call == [tool : Names, target : Targets, sheet : SUBSET Entry, byName : Tier,
         protected : BOOLEAN, class : Tier \cup {"blocked", None},
         dataNamespace : BOOLEAN, dataResource : BOOLEAN,
         denied : BOOLEAN, allowed : BOOLEAN]

GuardrailsSpec == [autonomy : Autonomy, approvalMode : ApprovalMode,
                   escalation : BOOLEAN]

-----------------------------------------------------------------------------

\* matchAction returns the first match of a Go map: any of them.
matchAction(call) == IF call.sheet = {} THEN {None} ELSE call.sheet

\* From prefixes and suffixes of the tool name.
classifyFromToolName(call) == call.byName

classifyTier(tier) == IF tier \in Tier THEN tier ELSE "destructive-mutation"

\* The Action Sheet's tier, or the name's; a ClassifiableTool overrides both.
CallTier(call, matched) ==
    IF call.class \in Tier THEN call.class
    ELSE IF matched = None THEN classifyFromToolName(call)
    ELSE classifyTier(matched.tier)

autonomyRank(level) ==
    CASE level = "observe" -> 0
      [] level = "recommend" -> 1
      [] level = "automate-safe" -> 2
      [] level = "automate-destructive" -> 3

requiredAutonomy(tier) ==
    CASE tier = "read" -> "observe"
      [] tier = "service-mutation" -> "automate-safe"
      [] tier = "destructive-mutation" -> "automate-destructive"

checkAutonomy(tier, autonomy) ==
    \/ tier = "data-mutation"
    \/ autonomyRank(autonomy) < autonomyRank(requiredAutonomy(tier))

\* The hardcoded rules: protected kinds, patterns of tools and targets.
checkDataProtection(call) == call.protected

\* Destructive mutations in a namespace that holds data, and any mutation
\* of a declared data resource.
checkDataResourceImpact(call, tier) ==
    /\ tier # "read"
    /\ \/ call.dataNamespace /\ tier = "destructive-mutation"
       \/ call.dataResource

\* Globs against the tool name, alone and with its target.
checkDenyList(call) == call.denied
checkAllowList(call) == ~call.allowed

\* cooling: the (action, target) pairs the CooldownTracker holds within
\* their cooldown.
checkCooldown(call, matched, cooling) ==
    matched.cooldown /\ <<matched.id, call.target>> \in cooling

\* The steps of Evaluate, by their number, that stop the call. Evaluate
\* returns at the first one.
Failing(call, matched, spec, cooling) ==
    LET tier == CallTier(call, matched) IN
    {step \in 3..9 :
       \/ step = 3 /\ (checkDataProtection(call) \/ call.class = "blocked")
       \/ step = 4 /\ checkDataResourceImpact(call, tier)
       \/ step = 5 /\ checkAutonomy(tier, spec.autonomy)
       \/ step = 6 /\ checkDenyList(call)
       \/ step = 7 /\ tier # "read" /\ checkAllowList(call)
       \/ step = 8 /\ matched # None /\ checkCooldown(call, matched, cooling)
       \/ step = 9 /\ matched = None /\ tier # "read"}

\* Mutant: an approval is asked for although an earlier step stops the call.
EvaluateApprovalFirst(call, matched, spec, cooling) ==
    LET failing == Failing(call, matched, spec, cooling)
        needsApproval == 5 \in failing /\ spec.approvalMode \notin {"", "none"}
    IN  [allowed |-> failing = {},
         needsApproval |-> needsApproval,
         status |-> IF failing = {} THEN "executed"
                    ELSE IF needsApproval THEN "pending-approval"
                    ELSE IF Min(failing) = 8 THEN "skipped" ELSE "blocked",
         tier |-> IF 3 \in failing THEN "data-mutation"
                                   ELSE CallTier(call, matched)]

\* Allowed, blocked, or waiting for an approval, with the tier on record.
Evaluate(call, matched, spec, cooling) ==
    LET failing == Failing(call, matched, spec, cooling)
        needsApproval == /\ failing # {} /\ Min(failing) = 5
                         /\ spec.approvalMode \notin {"", "none"}
    IN  [allowed |-> failing = {},
         needsApproval |-> needsApproval,
         status |-> IF failing = {} THEN "executed"
                    ELSE IF needsApproval THEN "pending-approval"
                    ELSE IF Min(failing) = 8 THEN "skipped" ELSE "blocked",
         tier |-> IF 3 \in failing THEN "data-mutation"
                                   ELSE CallTier(call, matched)]

=============================================================================
