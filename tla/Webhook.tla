------------------------------- MODULE Webhook ------------------------------
(***************************************************************************)
(* Webhook triggers: the reconciler keeps the registrations of the agents, *)
(* HTTP handlers look them up, debounce and queue triggers for the         *)
(* scheduler.                                                              *)
(*                                                                         *)
(*   src/internal/scheduler/webhook.go     WebhookHandler, Debouncer       *)
(*   src/internal/scheduler/scheduler.go   RegisterWebhookTriggers, Start  *)
(*                                                                         *)
(* agentMap and the debouncer have a lock each; a step is one section      *)
(* under a lock. Times are kept as ages, capped at the debounce window.    *)
(* Sending on the channel directly follows ShouldFire and does not block;  *)
(* MaxStall bounds the time the goroutine may be held up between the two.  *)
(***************************************************************************)
EXTENDS Integers, Sequences, Filters

CONSTANTS
    HookAgents, Sources,
    Handlers,       \* HTTP requests served at the same time
    TriggerLists,   \* the lists of webhook sources each agent's spec may have
    Window,         \* the debounce window
    MaxStall,       \* how late a send may follow ShouldFire, less than a window
    ChannelCap      \* capacity of the channel of triggers

ASSUME WebhookConstants ==
    /\ HookAgents # {}
    /\ DOMAIN TriggerLists = HookAgents
    /\ \A a \in HookAgents : TriggerLists[a] \subseteq Seq(Sources) /\ <<>> \in TriggerLists[a]
    /\ {Window, ChannelCap} \subseteq Nat \ {0}
    /\ MaxStall \in 0 .. Window - 1

VARIABLES
    agentMap,    \* WebhookHandler.agentMap
    reconciler,  \* RegisterWebhookTriggers: the agent, the sources to go
    handler,     \* ServeHTTP: the agents it has still to trigger
    last,        \* Debouncer.last
    channel,     \* WebhookHandler.triggers
    sent         \* history variable: when a trigger was last queued

webhookVars == <<agentMap, reconciler, handler, last, channel, sent>>

Key == Sources \X HookAgents
Trigger == [source : Sources, agent : HookAgents]

WebhookTypeOK ==
    /\ agentMap \in [Sources -> Seq(HookAgents)]
    /\ reconciler \in [agent : HookAgents, todo : Seq(Sources)]
    /\ handler \in [Handlers -> [pc : {"idle", "next", "send"},
                                 source : Sources, todo : Seq(HookAgents)]]
    /\ last \in [Key -> 0..Window]
    /\ channel \in Seq(Trigger) /\ Len(channel) <= ChannelCap
    /\ sent \in [Key -> 0..Window]

WebhookInit ==
    /\ agentMap = [s \in Sources |-> <<>>]
    /\ reconciler = [agent |-> CHOOSE a \in HookAgents : TRUE, todo |-> <<>>]
    /\ handler \in [Handlers -> [pc : {"idle"}, source : Sources, todo : {<<>>}]]
    /\ last = [k \in Key |-> Window]
    /\ channel = <<>>
    /\ sent = [k \in Key |-> Window]

-----------------------------------------------------------------------------
(* Registration, by the single worker of the LegatorAgent controller.      *)

\* list: the webhook sources in the agent's spec, edited since or not.
UnregisterAgent(a, list) ==
    /\ reconciler.todo = <<>>
    /\ agentMap' = [s \in Sources |->
         Kept(agentMap[s], {i \in DOMAIN agentMap[s] : agentMap[s][i] # a})]
    /\ reconciler' = [agent |-> a, todo |-> list]
    /\ UNCHANGED <<handler, last, channel, sent>>

RegisterAgent ==
    /\ reconciler.todo # <<>>
    /\ agentMap' = [agentMap EXCEPT ![Head(reconciler.todo)] =
                        Append(@, reconciler.agent)]
    /\ reconciler' = [reconciler EXCEPT !.todo = Tail(@)]
    /\ UNCHANGED <<handler, last, channel, sent>>

-----------------------------------------------------------------------------
(* ServeHTTP.                                                              *)

\* With no agent for the source the request is answered at once.
Lookup(h, s) ==
    /\ handler[h].pc = "idle"
    /\ agentMap[s] # <<>>
    /\ handler' = [handler EXCEPT ![h] =
                       [pc |-> "next", source |-> s, todo |-> agentMap[s]]]
    /\ UNCHANGED <<agentMap, reconciler, last, channel, sent>>

HandlerKey(h) == <<handler[h].source, Head(handler[h].todo)>>

\* Mutant: an event that fires is not recorded.
FireUnrecorded(h) ==
    /\ handler[h].pc = "next"
    /\ handler[h].todo # <<>>
    /\ last[HandlerKey(h)] = Window
    /\ handler' = [handler EXCEPT ![h].pc = "send"]
    /\ UNCHANGED <<agentMap, reconciler, last, channel, sent>>

\* ShouldFire: older than the window, and recorded.
Fire(h) ==
    /\ handler[h].pc = "next"
    /\ handler[h].todo # <<>>
    /\ last[HandlerKey(h)] = Window
    /\ last' = [last EXCEPT ![HandlerKey(h)] = 0]
    /\ handler' = [handler EXCEPT ![h].pc = "send"]
    /\ UNCHANGED <<agentMap, reconciler, channel, sent>>

Debounced(h) ==
    /\ handler[h].pc = "next"
    /\ handler[h].todo # <<>>
    /\ last[HandlerKey(h)] < Window
    /\ handler' = [handler EXCEPT ![h].todo = Tail(@)]
    /\ UNCHANGED <<agentMap, reconciler, last, channel, sent>>

\* Mutant: the capacity of the channel is not looked at.
SendUnbounded(h) ==
    /\ handler[h].pc = "send"
    /\ channel' = Append(channel, [source |-> handler[h].source,
                                   agent |-> Head(handler[h].todo)])
    /\ sent' = [sent EXCEPT ![HandlerKey(h)] = 0]
    /\ handler' = [handler EXCEPT ![h].pc = "next", ![h].todo = Tail(@)]
    /\ UNCHANGED <<agentMap, reconciler, last>>

QueueTrigger(h) ==
    /\ handler[h].pc = "send"
    /\ Len(channel) < ChannelCap
    /\ channel' = Append(channel, [source |-> handler[h].source,
                                   agent |-> Head(handler[h].todo)])
    /\ sent' = [sent EXCEPT ![HandlerKey(h)] = 0]
    /\ handler' = [handler EXCEPT ![h].pc = "next", ![h].todo = Tail(@)]
    /\ UNCHANGED <<agentMap, reconciler, last>>

\* Mutant: the send waits for room in the channel.
DropNever(h) ==
    /\ handler[h].pc = "send"
    /\ Len(channel) > ChannelCap
    /\ handler' = [handler EXCEPT ![h].pc = "next", ![h].todo = Tail(@)]
    /\ UNCHANGED <<agentMap, reconciler, last, channel, sent>>

DropTrigger(h) ==
    /\ handler[h].pc = "send"
    /\ Len(channel) = ChannelCap
    /\ handler' = [handler EXCEPT ![h].pc = "next", ![h].todo = Tail(@)]
    /\ UNCHANGED <<agentMap, reconciler, last, channel, sent>>

Reply(h) ==
    /\ handler[h].pc = "next"
    /\ handler[h].todo = <<>>
    /\ handler' = [handler EXCEPT ![h].pc = "idle"]
    /\ UNCHANGED <<agentMap, reconciler, last, channel, sent>>

-----------------------------------------------------------------------------

\* The scheduler receives a trigger. Module RunAdmission takes it from here.
ReceiveTrigger ==
    /\ channel # <<>>
    /\ channel' = Tail(channel)
    /\ UNCHANGED <<agentMap, reconciler, handler, last, sent>>

HookOlder(age) == IF age < Window THEN age + 1 ELSE Window

WebhookTick ==
    /\ \A h \in Handlers : handler[h].pc = "send" => last[HandlerKey(h)] < MaxStall
    /\ last' = [k \in Key |-> HookOlder(last[k])]
    /\ sent' = [k \in Key |-> HookOlder(sent[k])]
    /\ UNCHANGED <<agentMap, reconciler, handler, channel>>

HandlerStep(h) == Fire(h) \/ Debounced(h) \/ QueueTrigger(h) \/ DropTrigger(h) \/ Reply(h)

WebhookNext ==
    \/ \E a \in HookAgents : \E list \in TriggerLists[a] : UnregisterAgent(a, list)
    \/ RegisterAgent
    \/ \E h \in Handlers : HandlerStep(h) \/ \E s \in Sources : Lookup(h, s)
    \/ ReceiveTrigger \/ WebhookTick

WebhookSpec == WebhookInit /\ [][WebhookNext]_webhookVars

-----------------------------------------------------------------------------
(* Properties.                                                             *)

\* Handlers that serve the same source at the same time do not queue two
\* triggers for an agent within one debounce window, less the time by which
\* the first one may have been late.
DebouncedSends ==
    [][(Len(channel') > Len(channel)) =>
         LET t == channel'[Len(channel')]
         IN sent[<<t.source, t.agent>>] >= Window - MaxStall]_webhookVars

\* The inductive invariant behind it: the debouncer's record of an event is
\* not older than the last trigger queued for it by more than MaxStall, and a
\* handler about to send is the only one for its event, which it has recorded
\* no longer ago than that.
WebhookInv ==
    /\ WebhookTypeOK
    /\ \A k \in Key : last[k] <= sent[k] + MaxStall
    /\ \A h \in Handlers : handler[h].pc = "send" =>
         /\ handler[h].todo # <<>>
         /\ last[HandlerKey(h)] <= MaxStall /\ sent[HandlerKey(h)] >= Window - MaxStall
         /\ \A g \in Handlers :
              handler[g].pc = "send" /\ HandlerKey(g) = HandlerKey(h) => g = h

\* A request is always answered, also when the channel is full and the
\* scheduler never receives from it: the send does not block.
RequestAnswered == \A h \in Handlers : handler[h].pc # "idle" ~> handler[h].pc = "idle"

=============================================================================
