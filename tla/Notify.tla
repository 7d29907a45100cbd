------------------------------- MODULE Notify -------------------------------
(***************************************************************************)
(* The notifications sent when runs end.                                   *)
(*                                                                         *)
(*   src/internal/notify/channels.go   channels, Router, RateLimiter       *)
(*   src/cmd/main.go                   NotifyFunc, buildNotificationRouter *)
(*                                                                         *)
(* Several runs end at about the same time and notify concurrently; they   *)
(* share the rate limiter. Ages stand for timestamps: an entry older than  *)
(* Hour ticks is outside the limiter's window.                             *)
(***************************************************************************)
EXTENDS Integers, Sequences, FiniteSets, Functions, Filters

CONSTANTS
    NotifyAgents,
    Notifiers,    \* runs that end, each executing NotifyFunc
    Channels,     \* the configured channels, a sequence of channel types
    MaxPerHour,
    Hour          \* the length of the limiter's window, in ticks

ASSUME NotifyConstants ==
    /\ NotifyAgents # {}
    /\ Channels \in Seq(STRING)
    /\ MaxPerHour \in Nat \ {0} /\ Hour \in Nat
    /\ \A i, j \in DOMAIN Channels : Channels[i] = Channels[j] => i = j

VARIABLES
    notifier,   \* the Notify call of each notifier
    recent,     \* RateLimiter.counts: the ages of an agent's entries
    passed      \* ages of the notifications let through in the last hour

notifyVars == <<notifier, recent, passed>>

Severities == {"info", "warning", "critical"}

NoNotification(a) ==
    [pc |-> "idle", agent |-> a, severity |-> "info", todo |-> <<>>,
     tried |-> {}]

NotifyTypeOK ==
    /\ notifier \in [Notifiers ->
         [pc : {"idle", "routed", "sending", "done", "limited"}, agent : NotifyAgents,
          severity : Severities, todo : Seq(Range(Channels)), tried : SUBSET Range(Channels)]]
    /\ recent \in [NotifyAgents -> Seq(0 .. Hour + 1)]
    /\ passed \in [NotifyAgents -> Seq(0 .. Hour)]

NotifyInit ==
    /\ notifier = [n \in Notifiers |-> NoNotification(CHOOSE a \in NotifyAgents : TRUE)]
    /\ recent = [a \in NotifyAgents |-> <<>>]
    /\ passed = [a \in NotifyAgents |-> <<>>]

-----------------------------------------------------------------------------
(* What the channels accept. A status is a class of HTTP answers, or       *)
(* "none" when the request fails or the context of the call is over.       *)

Statuses == {"ok", "otherSuccess", "failure", "none"}

SlackSend(status) == status = "ok"
TelegramSend(status) == status = "ok"
WebhookSend(status) == status \in {"ok", "otherSuccess"}
EmailSend(status) == status # "none" /\ status # "failure"

Sent(channel, status) ==
    CASE channel = "slack" -> SlackSend(status)
      [] channel = "telegram" -> TelegramSend(status)
      [] channel = "email" -> EmailSend(status)
      [] OTHER -> WebhookSend(status)

-----------------------------------------------------------------------------
(* buildNotificationRouter puts every configured channel on all three      *)
(* lists, and a severity takes its own list and those below it: a channel  *)
(* gets a warning twice and a critical message three times.                *)

channelsForSeverity(severity) ==
    CASE severity = "critical" -> Channels \o Channels \o Channels
      [] severity = "warning" -> Channels \o Channels
      [] OTHER -> Channels

\* NotifyFunc: the severity comes from the phase and the escalations.
SeverityOf(phase, escalations) ==
    CASE escalations > 0 -> "critical"
      [] escalations = 0 /\ phase = "Failed" -> "warning"
      [] OTHER -> "info"

NotifyFunc(n, a, phase, escalations) ==
    LET severity == SeverityOf(phase, escalations) IN
    /\ notifier[n].pc \in {"idle", "done", "limited"}
    /\ notifier' = [notifier EXCEPT ![n] =
         [NoNotification(a) EXCEPT !.severity = severity,
            !.todo = channelsForSeverity(severity),
            !.pc = IF channelsForSeverity(severity) = <<>> THEN "done" ELSE "routed"]]
    /\ UNCHANGED <<recent, passed>>

\* The entries of the last hour.
Young(ages) == Kept(ages, {i \in DOMAIN ages : ages[i] <= Hour})

\* RateLimiter.Allow, under its mutex. A refused call prunes nothing, and the
\* message is dropped without an error whatever its severity.
Allow(n) ==
    LET a == notifier[n].agent
        young == Young(recent[a])
        ok == Len(young) < MaxPerHour
    IN  /\ notifier[n].pc = "routed"
        /\ recent' = IF ok THEN [recent EXCEPT ![a] = Append(young, 0)] ELSE recent
        /\ passed' = IF ok THEN [passed EXCEPT ![a] = Append(@, 0)] ELSE passed
        /\ notifier' = [notifier EXCEPT ![n].pc = IF ok THEN "sending" ELSE "limited"]

\* Mutant: the first channel that fails ends the loop.
SendFirst(n, status) ==
    LET ch == Head(notifier[n].todo)
        ok == Sent(ch, status)
        rest == IF ok THEN Tail(notifier[n].todo) ELSE <<>>
    IN  /\ notifier[n].pc = "sending"
        /\ notifier' = [notifier EXCEPT ![n].todo = rest, ![n].tried = @ \cup {ch},
                          ![n].pc = IF rest = <<>> THEN "done" ELSE @]
        /\ UNCHANGED <<recent, passed>>

\* Router.Notify: the next channel of the loop.
SendNext(n, status) ==
    LET ch == Head(notifier[n].todo)
        rest == Tail(notifier[n].todo)
    IN  /\ notifier[n].pc = "sending" /\ Sent(ch, status) \in BOOLEAN
        /\ notifier' = [notifier EXCEPT ![n].todo = rest, ![n].tried = @ \cup {ch},
                          ![n].pc = IF rest = <<>> THEN "done" ELSE @]
        /\ UNCHANGED <<recent, passed>>

Older(ages) == [i \in DOMAIN ages |-> IF ages[i] > Hour THEN ages[i] ELSE ages[i] + 1]

NotifyTick ==
    /\ recent' = [a \in NotifyAgents |-> Older(recent[a])]
    /\ passed' = [a \in NotifyAgents |-> Young(Older(passed[a]))]
    /\ UNCHANGED notifier

NotifyNext ==
    \/ \E n \in Notifiers, a \in NotifyAgents, phase \in {"Succeeded", "Failed"},
          e \in 0 .. 1 : NotifyFunc(n, a, phase, e)
    \/ \E n \in Notifiers : Allow(n)
    \/ \E n \in Notifiers, status \in Statuses : SendNext(n, status)
    \/ NotifyTick

NotifySpec == NotifyInit /\ [][NotifyNext]_notifyVars

-----------------------------------------------------------------------------
(* No agent gets more than MaxPerHour notifications through in an hour,    *)
(* however many of its runs end at once: Allow counts and records in one   *)
(* critical section.                                                       *)
NotificationsLimited ==
    \A a \in NotifyAgents : Len(passed[a]) <= MaxPerHour

(* A notification the limiter let through is tried on every configured     *)
(* channel, whatever its severity and whichever of the others fail.        *)
EveryChannelTried ==
    \A n \in Notifiers :
        notifier[n].pc = "done" => notifier[n].tried = Range(Channels)

\* The router gives each notification either to all channels or to none, and
\* to all within the hourly limit, for runs that end at the same time.
AllWithinLimit == NotificationsLimited /\ EveryChannelTried

\* The inductive invariant behind both: what the limiter remembers of an hour
\* is what it let through, and a notification on its way has tried, or still
\* has on its list, every channel.
NotifyInv ==
    /\ NotifyTypeOK
    /\ \A a \in NotifyAgents, k \in 0 .. Hour :
         CountIn(recent[a], 0 .. k) = CountIn(passed[a], 0 .. k)
    /\ \A n \in Notifiers : notifier[n].pc \in {"routed", "sending"} =>
         /\ notifier[n].todo # <<>>
         /\ Range(notifier[n].todo) \cup notifier[n].tried = Range(Channels)
    /\ AllWithinLimit

=============================================================================
