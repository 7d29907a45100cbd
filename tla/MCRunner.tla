------------------------------ MODULE MCRunner ------------------------------
(***************************************************************************)
(* Instances of Runner: tool calls that each meet another step of          *)
(* Evaluate, and guardrails of increasing permissiveness.                  *)
(***************************************************************************)
EXTENDS Runner

CONSTANTS restart, scale, drop, kubectl, other, pod, db

Sheet(id, tier, cooldown) == {[id |-> id, tier |-> tier, cooldown |-> cooldown]}

Plain(tool, target, sheet) ==
    [tool |-> tool, target |-> target, sheet |-> sheet, byName |-> "read",
     protected |-> FALSE, class |-> None, dataNamespace |-> FALSE,
     dataResource |-> FALSE, denied |-> FALSE, allowed |-> TRUE]

Restart == Plain(kubectl, pod, Sheet(restart, "service-mutation", TRUE))
Drop == Plain(kubectl, db, Sheet(drop, "data-mutation", FALSE))
Read == Plain(other, pod, {})
Denied == [Restart EXCEPT !.denied = TRUE]

\* One call for every step of Evaluate that can stop one, and an ambiguous one.
MCAllCalls ==
    {Restart, Drop, Read, Denied,
     [Read EXCEPT !.protected = TRUE],
     [Read EXCEPT !.class = "blocked"],
     [Read EXCEPT !.class = "service-mutation"],
     [Restart EXCEPT !.dataResource = TRUE],
     [Restart EXCEPT !.class = "destructive-mutation", !.dataNamespace = TRUE],
     [Restart EXCEPT !.allowed = FALSE],
     [Restart EXCEPT !.sheet = @ \cup Sheet(scale, "unknown", FALSE)]}

MCFewCalls == {Restart, Drop, Read, Denied}
MCLoopCalls == {Restart, Read}

Guard(autonomy, mode, escalation) ==
    [autonomy |-> autonomy, approvalMode |-> mode, escalation |-> escalation]

MCAllSpecs == {Guard("recommend", "mutation-gate", TRUE),
               Guard("automate-safe", "none", FALSE),
               Guard("automate-destructive", "mutation-gate", FALSE)}
MCApproving == {Guard("recommend", "mutation-gate", FALSE)}
MCAutomating == {Guard("automate-safe", "none", FALSE)}

=============================================================================
