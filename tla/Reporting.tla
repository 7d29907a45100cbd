------------------------------ MODULE Reporting -----------------------------
(***************************************************************************)
(* The reports about a run and the escalations during it.                  *)
(*                                                                         *)
(*   src/internal/reporter/reporter.go     Reporter, ShouldReport          *)
(*   src/internal/reporter/channels.go     the three channels              *)
(*   src/internal/reporter/escalation.go   EscalationEngine                *)
(*                                                                         *)
(* One agent; the channels of its environment each have a type. An         *)
(* escalation waits for its timeout while the context of the run may end.  *)
(***************************************************************************)
EXTENDS Integers, FiniteSets

CONSTANTS
    ChannelTypes   \* the channels of the environment: name -> type in the spec

VARIABLES
    channels,     \* Reporter.channels: the names registered
    report,       \* the report being sent to all channels
    escalation    \* the Escalate call and its result

reportVars == <<channels, report, escalation>>

ReportPhases == {"Succeeded", "Failed", "Escalated", "Blocked", "Running"}
ReportActions == {"silent", "log", "notify", "escalate"}

NoReport == [severity |-> "none", action |-> "silent", todo |-> {}, errs |-> {}]
NoEscalation == [pc |-> "idle", onTimeout |-> "cancel", sent |-> FALSE,
                 timedOut |-> FALSE, policy |-> "none", err |-> FALSE, live |-> TRUE]

ReportTypeOK ==
    /\ channels \subseteq DOMAIN ChannelTypes
    /\ report \in [severity : {"none", "success", "failure", "escalation", "info"},
                   action : ReportActions,
                   todo : SUBSET DOMAIN ChannelTypes, errs : SUBSET DOMAIN ChannelTypes]
    /\ escalation \in [pc : {"idle", "waiting", "returned"},
                       onTimeout : {"cancel", "proceed", "retry"},
                       sent : BOOLEAN, timedOut : BOOLEAN,
                       policy : {"none", "cancel", "proceed", "retry"},
                       err : BOOLEAN, live : BOOLEAN]

\* New: a channel of an unsupported type is logged and left out.
newChannelFromSpec(name) == ChannelTypes[name] \in {"slack", "telegram", "webhook"}

ReportInit ==
    /\ channels = {c \in DOMAIN ChannelTypes : newChannelFromSpec(c)}
    /\ report = NoReport
    /\ escalation = NoEscalation

-----------------------------------------------------------------------------
(* Sending. A Telegram channel made from a spec has no bot token: only     *)
(* SetBotToken, which nothing calls, gives it one.                         *)

ReportStatuses == {"200", "2xx", "3xx", "4xx", "none"}

SlackReport(status) == status = "200"
TelegramReport(status) == FALSE
WebhookReport(status) == status \in {"200", "2xx", "3xx"}

ChannelSend(c, status) ==
    CASE ChannelTypes[c] = "slack" -> SlackReport(status)
      [] ChannelTypes[c] = "telegram" -> TelegramReport(status)
      [] OTHER -> WebhookReport(status)

FromLegatorRun(phase) ==
    CASE phase = "Succeeded" -> "success"
      [] phase = "Failed" -> "failure"
      [] phase \in {"Escalated", "Blocked"} -> "escalation"
      [] OTHER -> "info"

\* ShouldReport: "silent" is also its answer that nothing is to be sent.
ShouldReport(reporting, phase, findings) ==
    CASE phase = "Succeeded" /\ findings -> reporting.onFinding
      [] phase = "Succeeded" /\ ~findings -> reporting.onSuccess
      [] phase = "Failed" -> reporting.onFailure
      [] phase \in {"Escalated", "Blocked"} -> "escalate"
      [] OTHER -> "silent"

DefaultReporting == [onSuccess |-> "silent", onFailure |-> "escalate", onFinding |-> "log"]

ReportRun(reporting, phase, findings) ==
    LET action == ShouldReport(reporting, phase, findings) IN
    /\ report.todo = {}
    /\ report' = [severity |-> FromLegatorRun(phase), action |-> action, errs |-> {},
                  todo |-> IF action = "silent" THEN {} ELSE channels]
    /\ UNCHANGED <<channels, escalation>>

\* SendToAll, one channel; the order is that of a map.
SendToAll(c, status) ==
    /\ c \in report.todo
    /\ report' = [report EXCEPT !.todo = @ \ {c},
                                !.errs = IF ChannelSend(c, status) THEN @ ELSE @ \cup {c}]
    /\ UNCHANGED <<channels, escalation>>

-----------------------------------------------------------------------------
(* Escalate.                                                               *)

\* Without a configuration it returns at once; otherwise it sends to the
\* channel, when there is one, and waits whether or not that worked.
Escalate(configured, onTimeout, c, status) ==
    /\ escalation.pc = "idle"
    /\ escalation' =
         [escalation EXCEPT !.onTimeout = onTimeout,
            !.pc = IF configured THEN "waiting" ELSE "returned",
            !.sent = configured /\ c \in channels /\ ChannelSend(c, status),
            !.err = configured /\ c \in channels /\ ~ChannelSend(c, status)]
    /\ UNCHANGED <<channels, report>>

RunContextEnds ==
    /\ escalation.pc # "returned" /\ escalation.live
    /\ escalation' = [escalation EXCEPT !.live = FALSE]
    /\ UNCHANGED <<channels, report>>

\* Mutant: the policy is applied whichever case of the select is taken.
CancelledWithPolicy ==
    /\ escalation.pc = "waiting" /\ ~escalation.live
    /\ escalation' = [escalation EXCEPT !.pc = "returned", !.err = TRUE,
                                        !.policy = escalation.onTimeout]
    /\ UNCHANGED <<channels, report>>

EscalationCancelled ==
    /\ escalation.pc = "waiting" /\ ~escalation.live
    /\ escalation' = [escalation EXCEPT !.pc = "returned", !.err = TRUE]
    /\ UNCHANGED <<channels, report>>

\* The select takes either case when both are ready.
EscalationTimeout ==
    /\ escalation.pc = "waiting"
    /\ escalation' = [escalation EXCEPT !.pc = "returned", !.timedOut = TRUE,
                                        !.policy = escalation.onTimeout]
    /\ UNCHANGED <<channels, report>>

EscalationReturned ==
    /\ escalation.pc = "returned" /\ escalation' = NoEscalation
    /\ UNCHANGED <<channels, report>>

Reportings == {DefaultReporting,
               [onSuccess |-> "log", onFailure |-> "silent", onFinding |-> "notify"]}

ReportNext ==
    \/ \E reporting \in Reportings, phase \in ReportPhases, findings \in BOOLEAN :
          ReportRun(reporting, phase, findings)
    \/ \E c \in channels, status \in ReportStatuses : SendToAll(c, status)
    \/ \E configured \in BOOLEAN, onTimeout \in {"cancel", "proceed", "retry"},
          c \in DOMAIN ChannelTypes, status \in ReportStatuses :
          Escalate(configured, onTimeout, c, status)
    \/ RunContextEnds
    \/ EscalationCancelled
    \/ EscalationTimeout
    \/ EscalationReturned

ReportSpec == ReportInit /\ [][ReportNext]_reportVars

-----------------------------------------------------------------------------
(* A policy is applied only by a call that waited its timeout out, and a   *)
(* wait that the end of the run cut short reports an error and no policy.  *)
(* When both are ready the select may take either.                         *)
PolicyOnlyAfterTimeout ==
    [][escalation.policy = "none" /\ escalation'.policy # "none"
         => escalation.pc = "waiting" /\ escalation'.timedOut
            /\ escalation'.policy = escalation.onTimeout]_reportVars

(* Between the steps: a report goes to a registered channel once, sent or  *)
(* failed, and a policy is there exactly when the timeout was waited out,  *)
(* and then it is the configured one.                                      *)
ReportInv ==
    /\ ReportTypeOK
    /\ report.todo \cup report.errs \subseteq channels /\ report.todo \cap report.errs = {}
    /\ escalation.policy # "none" <=> escalation.timedOut
    /\ escalation.timedOut => escalation.pc = "returned" /\ escalation.policy = escalation.onTimeout

=============================================================================
