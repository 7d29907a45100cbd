---------------------------- MODULE MessageProofs ----------------------------
(***************************************************************************)
(* Proofs about what comes in from outside and what goes out: approvals,   *)
(* webhook triggers and notifications.                                     *)
(***************************************************************************)
EXTENDS Approval, Webhook, Notify, CountingProofs

-----------------------------------------------------------------------------
(* Approval: an approval is reported only when somebody gave it, and the   *)
(* deciders that check the phase never overwrite a decision, for any       *)
(* number of deciders of either kind and any faults of the API calls.      *)


\* Neither a phase nor a result is mistaken for the absence of one.
LEMMA NoPhaseIsNone ==
    /\ NoPhase \notin ApprovalPhase
    /\ Decision \subseteq ApprovalPhase /\ Undecided \subseteq ApprovalPhase
    /\ Decision \cap Undecided = {}
  BY ApprovalConstants DEF ApprovalPhase, Decision, Undecided

\* The initial state satisfies the invariant.
LEMMA ApprovalInvInit == ApprovalInit => ApprovalInv
<1> SUFFICES ASSUME ApprovalInit PROVE ApprovalInv
  OBVIOUS
<1> USE ApprovalConstants DEF ApprovalInit
<1>1. request = NoPhase /\ cached.phase = NoPhase /\ result = NoPhase
  OBVIOUS
<1>2. ~cached.current /\ ~poller.current
  OBVIOUS
<1>3. \A d \in Deciders : deciders[d] = NoDecider
  OBVIOUS
<1>4. deciders \in [Deciders -> [decision : Decision \cup {NoPhase}, current : BOOLEAN]]
  BY DEF NoDecider
<1>5. ApprovalTypeOK
  BY <1>4 DEF ApprovalTypeOK
<1>6. Clis \subseteq Deciders
  BY DEF Deciders
<1> QED
  BY <1>1, <1>2, <1>3, <1>5, <1>6, NoPhaseIsNone DEF ApprovalInv, ResultWasDecided, NoDecider

\* A stored write leaves a cached copy that is either outdated or equal to
\* what was stored.
LEMMA CachedWrite ==
    ASSUME ApprovalTypeOK, NEW phase \in ApprovalPhase, Cached(phase)
    PROVE  /\ cached' \in [phase : ApprovalPhase \cup {NoPhase}, current : BOOLEAN]
           /\ cached'.current => cached'.phase = phase
           /\ cached'.phase \in {cached.phase, phase}
<1>1. CASE Faults
  BY <1>1 DEF Cached, ApprovalTypeOK
<1>2. CASE ~Faults
  BY <1>2 DEF Cached
<1> QED
  BY <1>1, <1>2

\* It also outdates every decider's copy.
LEMMA OutdatedByWrite ==
    ASSUME ApprovalTypeOK
    PROVE  /\ OutdatedDeciders \in [Deciders -> [decision : Decision \cup {NoPhase},
                                                 current : BOOLEAN]]
           /\ \A d \in Deciders : ~OutdatedDeciders[d].current
  BY DEF ApprovalTypeOK, OutdatedDeciders

\* A step that moves only the polling run preserves it if the copy it keeps
\* and the result it returns are sound.
LEMMA PollerMoves ==
    ASSUME ApprovalInv, UNCHANGED <<request, cached, ctxDone, late, deciders, decided>>,
           NEW pc \in {"poll", "expireGet", "expireUpdate", "returned"}, NEW c \in BOOLEAN,
           poller' = [pc |-> pc, current |-> c], c => request = "Pending",
           result' \in Decision \cup {"Expired", "error", NoPhase},
           result' \in Decision => result' \in decided
    PROVE  ApprovalInv'
<1>1. poller' \in [pc : {"create", "poll", "expireGet", "expireUpdate", "returned"},
                   current : BOOLEAN]
  OBVIOUS
<1>2. ApprovalTypeOK'
  BY <1>1 DEF ApprovalInv, ApprovalTypeOK
<1>3. poller'.pc # "create" /\ poller'.current = c
  OBVIOUS
<1> QED
  BY <1>2, <1>3 DEF ApprovalInv, ResultWasDecided

\* Every step of the polling run preserves it.
LEMMA ApprovalInvPoller ==
    ASSUME ApprovalInv, PollerStep
    PROVE  ApprovalInv'
<1>0. /\ ApprovalTypeOK /\ result \in Decision \cup {"Expired", "error", NoPhase}
      /\ result \in Decision => result \in decided
  BY DEF ApprovalInv, ApprovalTypeOK, ResultWasDecided
<1>e. "Expired" \notin Decision /\ "error" \notin Decision
  BY DEF Decision
<1>1. CASE CreateRequest
  <2>1. PICK phase \in CreatedPhases : request' = phase /\ Cached(phase)
    BY <1>1 DEF CreateRequest
  <2>2. phase \in ApprovalPhase /\ phase \in Undecided /\ phase \notin Decision
    <3>1. phase \in Undecided
      BY ApprovalConstants DEF Undecided
    <3> QED
      BY <3>1, NoPhaseIsNone
  <2>3. /\ cached' \in [phase : ApprovalPhase \cup {NoPhase}, current : BOOLEAN]
        /\ cached'.current => cached'.phase = phase
        /\ cached'.phase \in {cached.phase, phase}
    BY <1>0, <2>1, <2>2, CachedWrite
  <2>4. /\ poller' = [pc |-> "poll", current |-> FALSE]
        /\ UNCHANGED <<result, ctxDone, late, deciders, decided>>
    BY <1>1 DEF CreateRequest, PollerAt
  <2>5. ApprovalTypeOK'
    BY <1>0, <2>1, <2>2, <2>3, <2>4 DEF ApprovalTypeOK
  <2> QED
    BY <2>1, <2>2, <2>3, <2>4, <2>5 DEF ApprovalInv, ResultWasDecided
<1>2. CASE CreateFails
  BY <1>2, <1>e, PollerMoves DEF CreateFails, PollerReturns, PollerAt
<1>3. CASE GiveUp
  BY <1>0, <1>3, PollerMoves DEF GiveUp, PollerAt
<1>4. CASE Poll
  <2>1. cached.phase \in Decision => cached.phase \in decided
    BY DEF ApprovalInv
  <2> QED
    BY <1>4, <2>1, <1>e, PollerMoves DEF Poll, PollerReturns, PollerAt
<1>5. CASE ExpireSkip
  BY <1>5, <1>e, PollerMoves DEF ExpireSkip, PollerReturns, PollerAt
<1>6. CASE ExpireGet
  <2>1. cached.current \in BOOLEAN /\ (cached.current => request = "Pending")
    BY <1>0, <1>6 DEF ExpireGet, ApprovalInv, ApprovalTypeOK
  <2> QED
    BY <1>0, <1>6, <2>1, PollerMoves DEF ExpireGet
<1>7. CASE ExpireUpdate
  <2>1. "Expired" \in ApprovalPhase /\ Clis \subseteq Deciders
    BY DEF Deciders, ApprovalPhase
  <2>2. /\ request' = "Expired" /\ deciders' = OutdatedDeciders
        /\ poller' = [pc |-> "returned", current |-> FALSE] /\ result' = "Expired"
        /\ UNCHANGED <<ctxDone, late, decided>>
    BY <1>7 DEF ExpireUpdate, PollerReturns, PollerAt
  <2>3. /\ cached' \in [phase : ApprovalPhase \cup {NoPhase}, current : BOOLEAN]
        /\ cached'.current => cached'.phase = "Expired"
        /\ cached'.phase \in {cached.phase, "Expired"}
    BY <1>0, <1>7, <2>1, CachedWrite DEF ExpireUpdate
  <2>4. ApprovalTypeOK' /\ \A d \in Deciders : ~deciders'[d].current
    BY <1>0, <2>1, <2>2, <2>3, OutdatedByWrite DEF ApprovalTypeOK
  <2> QED
    BY <1>e, <2>1, <2>2, <2>3, <2>4 DEF ApprovalInv, ResultWasDecided
<1>8. CASE ExpireUpdateFails
  BY <1>8, <1>e, PollerMoves DEF ExpireUpdateFails, PollerReturns, PollerAt
<1> QED
  BY <1>1, <1>2, <1>3, <1>4, <1>5, <1>6, <1>7, <1>8 DEF PollerStep

\* So does every step of a decider.
LEMMA ApprovalInvDecider ==
    ASSUME ApprovalInv, NEW d \in Deciders, DeciderStep(d)
    PROVE  ApprovalInv'
<1> USE ApprovalConstants
<1> USE DEF ApprovalInv, ApprovalTypeOK
<1> DEFINE DeciderSet == [decision : Decision \cup {NoPhase}, current : BOOLEAN]
<1>0. /\ Clis \subseteq Deciders /\ NoDecider \in DeciderSet
      /\ \A c \in Clis : c \notin HttpDeciders
  BY DEF Deciders, NoDecider
<1>1. ASSUME NEW decision \in Decision, d \in HttpDeciders, HandlerGet(d, decision)
      PROVE  ApprovalInv'
  <2> DEFINE new == [decision |-> decision, current |-> cached.current]
  <2>1. new \in DeciderSet /\ decision # NoPhase
    BY NoPhaseIsNone
  <2>2. deciders' = [deciders EXCEPT ![d] = new]
    BY <1>1 DEF HandlerGet
  <2>3. /\ deciders' \in [Deciders -> DeciderSet]
        /\ deciders'[d].decision # NoPhase
        /\ \A e \in Deciders \ {d} : deciders'[e] = deciders[e]
    BY <2>1, <2>2
  <2>4. UNCHANGED <<request, cached, poller, result, ctxDone, late, decided>>
    BY <1>1 DEF HandlerGet
  <2>5. ApprovalTypeOK' /\ ResultWasDecided'
    BY <2>3, <2>4 DEF ResultWasDecided
  <2>6. \A e \in Deciders : deciders'[e].current => deciders'[e].decision # NoPhase
    BY <2>3
  <2>7. \A c \in Clis : deciders'[c].current => request \in Undecided
    <3>1. ASSUME NEW c \in Clis, deciders'[c].current
          PROVE  request \in Undecided
      <4>1. c \in Deciders /\ c # d
        BY <1>0, <1>1
      <4>2. deciders'[c] = deciders[c]
        BY <2>3, <4>1
      <4> QED
        BY <3>1, <4>2
    <3> QED
      BY <3>1
  <2>8. poller.pc # "create"
    BY <1>1, NoPhaseIsNone DEF HandlerGet, Undecided
  <2> QED
    BY <2>4, <2>5, <2>6, <2>7, <2>8
<1>2. ASSUME NEW decision \in Decision, d \in Clis, CliGet(d, decision)
      PROVE  ApprovalInv'
  <2> DEFINE new == [decision |-> decision, current |-> TRUE]
  <2>1. new \in DeciderSet /\ decision # NoPhase
    BY NoPhaseIsNone
  <2>2. deciders' = [deciders EXCEPT ![d] = new]
    BY <1>2 DEF CliGet
  <2>3. /\ deciders' \in [Deciders -> DeciderSet]
        /\ deciders'[d].decision # NoPhase
        /\ \A e \in Deciders \ {d} : deciders'[e] = deciders[e]
    BY <2>1, <2>2
  <2>4. UNCHANGED <<request, cached, poller, result, ctxDone, late, decided>>
    BY <1>2 DEF CliGet
  <2>5. ApprovalTypeOK' /\ ResultWasDecided'
    BY <2>3, <2>4 DEF ResultWasDecided
  <2>6. \A e \in Deciders : deciders'[e].current => deciders'[e].decision # NoPhase
    BY <2>3
  <2>7. \A c \in Clis : deciders'[c].current => request \in Undecided
    BY <1>0, <1>2, <2>3 DEF CliGet
  <2>8. poller.pc # "create"
    BY <1>2, NoPhaseIsNone DEF CliGet, Undecided
  <2> QED
    BY <2>4, <2>5, <2>6, <2>7, <2>8
<1>3. CASE DeciderUpdate(d)
  <2> DEFINE decision == deciders[d].decision
  <2>1. decision \in Decision /\ decision \in ApprovalPhase
    BY <1>3, NoPhaseIsNone DEF DeciderUpdate
  <2>2. /\ cached' \in [phase : ApprovalPhase \cup {NoPhase}, current : BOOLEAN]
        /\ cached'.current => cached'.phase = decision
        /\ cached'.phase \in {cached.phase, decision}
    BY <1>3, <2>1, CachedWrite DEF DeciderUpdate
  <2>3. /\ deciders' \in [Deciders -> DeciderSet]
        /\ \A e \in Deciders : ~deciders'[e].current
    BY <1>0, <1>3, OutdatedByWrite DEF DeciderUpdate, NoDecider
  <2>4. /\ request' = decision /\ decided' = decided \cup {decision}
        /\ ~poller'.current
        /\ poller' \in [pc : {"create", "poll", "expireGet", "expireUpdate", "returned"},
                        current : BOOLEAN]
        /\ UNCHANGED <<result, ctxDone, late>>
    BY <1>3 DEF DeciderUpdate
  <2>5. poller'.pc # "create"
    BY <1>3 DEF DeciderUpdate
  <2> HIDE DEF decision
  <2>6. ApprovalTypeOK' /\ ResultWasDecided'
    BY <2>1, <2>2, <2>3, <2>4 DEF ResultWasDecided
  <2>7. cached'.phase \in Decision => cached'.phase \in decided'
    BY <2>2, <2>4
  <2> QED
    BY <1>0, <2>1, <2>2, <2>3, <2>4, <2>5, <2>6, <2>7
<1>4. CASE DeciderFails(d)
  <2>1. deciders' = [deciders EXCEPT ![d] = NoDecider]
    BY <1>4 DEF DeciderFails
  <2>2. /\ deciders' \in [Deciders -> DeciderSet]
        /\ ~deciders'[d].current
        /\ \A e \in Deciders \ {d} : deciders'[e] = deciders[e]
    BY <1>0, <2>1 DEF NoDecider
  <2>3. UNCHANGED <<request, cached, poller, result, ctxDone, late, decided>>
    BY <1>4 DEF DeciderFails
  <2>4. ApprovalTypeOK' /\ ResultWasDecided'
    BY <2>2, <2>3 DEF ResultWasDecided
  <2>5. \A e \in Deciders : deciders'[e].current => deciders[e].current /\ deciders'[e] = deciders[e]
    BY <2>2
  <2> QED
    <3>1. \A e \in Deciders : deciders'[e].current => deciders'[e].decision # NoPhase
      BY <2>5
    <3>2. \A c \in Clis : deciders'[c].current => request \in Undecided
      BY <1>0, <2>5
    <3>3. poller.pc = "create" => \A e \in Deciders : ~deciders'[e].current
      BY <2>5
    <3> QED
      BY <2>3, <2>4, <3>1, <3>2, <3>3
<1> QED
  BY <1>1, <1>2, <1>3, <1>4 DEF DeciderStep

\* ApprovalInv is inductive.
LEMMA ApprovalInvStep ==
    ASSUME ApprovalInv, [ApprovalNext]_approvalVars
    PROVE  ApprovalInv'
<1> USE DEF ApprovalInv, ApprovalTypeOK, ResultWasDecided
<1>1. CASE PollerStep
  BY <1>1, ApprovalInvPoller
<1>2. CASE ApprovalCacheSync
  BY <1>2 DEF ApprovalCacheSync
<1>3. CASE ContextExpires
  BY <1>3 DEF ContextExpires
<1>4. CASE DeadlinePasses
  BY <1>4 DEF DeadlinePasses
<1>5. ASSUME NEW d \in Deciders, DeciderStep(d)
      PROVE  ApprovalInv'
  BY <1>5, ApprovalInvDecider
<1>6. CASE UNCHANGED approvalVars
  BY <1>6 DEF approvalVars
<1> QED
  BY <1>1, <1>2, <1>3, <1>4, <1>5, <1>6 DEF ApprovalNext

\* The invariant holds in every reachable state.
THEOREM ApprovalInvariant == ApprovalSpec => []ApprovalInv
  BY ApprovalInvInit, ApprovalInvStep, PTL DEF ApprovalSpec

\* RequestApproval never reports a decision that nobody stored, whatever
\* timeouts, lagging copies, lost updates and races of deciders come together.
THEOREM ResultsAreDecided == ApprovalSpec => []ResultWasDecided
<1>1. ApprovalInv => ResultWasDecided
  BY DEF ApprovalInv
<1> QED
  BY <1>1, ApprovalInvariant, PTL

\* Of all steps only the update of an HTTP decider changes a final phase.
LEMMA FinalPhaseStep ==
    ASSUME ApprovalInv, [ApprovalNext]_approvalVars,
           request \in Decision \cup {"Expired"}, request' # request
    PROVE  \E h \in HttpDeciders : DeciderUpdate(h)
<1> USE ApprovalConstants DEF ApprovalInv, Decision, Undecided
<1>1. CASE PollerStep
  BY <1>1 DEF PollerStep, CreateRequest, CreateFails, GiveUp, Poll, ExpireSkip, ExpireGet,
              ExpireUpdate, ExpireUpdateFails
<1>2. CASE ApprovalCacheSync \/ ContextExpires \/ DeadlinePasses \/ UNCHANGED approvalVars
  BY <1>2 DEF ApprovalCacheSync, ContextExpires, DeadlinePasses, approvalVars
<1>3. ASSUME NEW d \in Deciders, DeciderStep(d)
      PROVE  d \in HttpDeciders /\ DeciderUpdate(d)
  <2>1. DeciderUpdate(d)
    BY <1>3 DEF DeciderStep, HandlerGet, CliGet, DeciderFails
  <2>2. d \notin Clis
    BY <2>1 DEF DeciderUpdate
  <2> QED
    BY <2>1, <2>2 DEF Deciders
<1> QED
  BY <1>1, <1>2, <1>3 DEF ApprovalNext

\* The command line and the expiry never overwrite a decision.
THEOREM CheckedDecisionsAreFinal == ApprovalSpec => CheckedDecisionFinal
<1>1. ApprovalInv /\ [ApprovalNext]_approvalVars =>
        [(request \in Decision \cup {"Expired"}) =>
            request' = request \/ \E h \in HttpDeciders : DeciderUpdate(h)]_approvalVars
  BY FinalPhaseStep
<1> QED
  BY <1>1, ApprovalInvariant, PTL DEF ApprovalSpec, CheckedDecisionFinal

-----------------------------------------------------------------------------
(* Webhook.                                                                *)

\* The parts of a list that is not empty.
LEMMA HeadAndTail ==
    ASSUME NEW S, NEW seq \in Seq(S), seq # <<>>
    PROVE  Head(seq) \in S /\ Tail(seq) \in Seq(S)
  OBVIOUS

\* A function with another value at one place.
LEMMA Overwritten ==
    ASSUME NEW K, NEW S, NEW f \in [K -> S], NEW k, NEW v \in S
    PROVE  [f EXCEPT ![k] = v] \in [K -> S]
  OBVIOUS

\* The types, one by one.
LEMMA WebhookTypes ==
    ASSUME WebhookTypeOK
    PROVE  /\ agentMap \in [Sources -> Seq(HookAgents)]
           /\ reconciler.agent \in HookAgents /\ reconciler.todo \in Seq(Sources)
           /\ DOMAIN handler = Handlers
           /\ \A h \in Handlers :
                /\ handler[h].pc \in {"idle", "next", "send"} /\ handler[h].source \in Sources
                /\ handler[h].todo \in Seq(HookAgents)
                /\ handler[h] = [pc |-> handler[h].pc, source |-> handler[h].source,
                                 todo |-> handler[h].todo]
                /\ handler[h].todo # <<>> =>
                     /\ HandlerKey(h) \in Key
                     /\ Head(handler[h].todo) \in HookAgents
                     /\ Tail(handler[h].todo) \in Seq(HookAgents)
           /\ \A k \in Key : last[k] \in 0 .. Window /\ sent[k] \in 0 .. Window
           /\ channel \in Seq(Trigger) /\ Len(channel) \in Nat /\ Len(channel) <= ChannelCap
           /\ Window \in Nat /\ Window > 0 /\ ChannelCap \in Nat
           /\ MaxStall \in Nat /\ MaxStall < Window
<1>1. ASSUME NEW h \in Handlers
      PROVE  /\ handler[h].pc \in {"idle", "next", "send"} /\ handler[h].source \in Sources
             /\ handler[h].todo \in Seq(HookAgents)
             /\ handler[h] = [pc |-> handler[h].pc, source |-> handler[h].source,
                              todo |-> handler[h].todo]
  BY DEF WebhookTypeOK
<1>2. ASSUME NEW h \in Handlers, handler[h].todo # <<>>
      PROVE  /\ HandlerKey(h) \in Key
             /\ Head(handler[h].todo) \in HookAgents
             /\ Tail(handler[h].todo) \in Seq(HookAgents)
  <2>1. Head(handler[h].todo) \in HookAgents /\ Tail(handler[h].todo) \in Seq(HookAgents)
    BY <1>1, <1>2, HeadAndTail
  <2> QED
    BY <1>1, <2>1 DEF HandlerKey, Key
<1>3. channel \in Seq(Trigger) /\ Len(channel) \in Nat /\ Len(channel) <= ChannelCap
  BY DEF WebhookTypeOK
<1>4. /\ Window \in Nat /\ Window > 0 /\ ChannelCap \in Nat
      /\ MaxStall \in Nat /\ MaxStall < Window
  BY WebhookConstants
<1>5. /\ agentMap \in [Sources -> Seq(HookAgents)] /\ DOMAIN handler = Handlers
      /\ reconciler.agent \in HookAgents /\ reconciler.todo \in Seq(Sources)
      /\ \A k \in Key : last[k] \in 0 .. Window /\ sent[k] \in 0 .. Window
  BY DEF WebhookTypeOK
<1> QED
  BY <1>1, <1>2, <1>3, <1>4, <1>5

\* Nothing is registered, debounced or queued at first.
LEMMA WebhookInvInit == WebhookInit => WebhookInv
<1> SUFFICES ASSUME WebhookInit PROVE WebhookInv
  OBVIOUS
<1>1. (CHOOSE a \in HookAgents : TRUE) \in HookAgents
  BY WebhookConstants
<1>2. /\ <<>> \in Seq(HookAgents) /\ <<>> \in Seq(Sources) /\ <<>> \in Seq(Trigger)
      /\ Len(<<>>) = 0
  OBVIOUS
<1>3. Window \in Nat /\ ChannelCap \in Nat /\ MaxStall \in Nat
  BY WebhookConstants
<1>4. \A h \in Handlers : handler[h].pc = "idle"
  BY DEF WebhookInit
<1>5. handler \in [Handlers -> [pc : {"idle", "next", "send"},
                                source : Sources, todo : Seq(HookAgents)]]
  BY <1>2 DEF WebhookInit
<1>6. WebhookTypeOK
  BY <1>1, <1>2, <1>3, <1>5 DEF WebhookInit, WebhookTypeOK
<1>7. \A k \in Key : last[k] <= sent[k] + MaxStall
  BY <1>3 DEF WebhookInit
<1> QED
  BY <1>4, <1>6, <1>7 DEF WebhookInv

\* What keeps the invariant when the debouncer is left alone: handlers only
\* leave "send", or stay there as they were.
LEMMA WebhookKept ==
    ASSUME WebhookInv, WebhookTypeOK', UNCHANGED <<last, sent>>,
           \A h \in Handlers : handler'[h].pc = "send" =>
               handler[h].pc = "send" /\ handler'[h] = handler[h]
    PROVE  WebhookInv'
  BY DEF WebhookInv, HandlerKey

\* A handler changes its own state only.
LEMMA HandlerTyped ==
    ASSUME WebhookTypeOK, NEW h \in Handlers, NEW pc \in {"idle", "next", "send"},
           NEW source \in Sources, NEW list \in Seq(HookAgents),
           handler' = [handler EXCEPT ![h] = [pc |-> pc, source |-> source, todo |-> list]]
    PROVE  /\ handler' \in [Handlers -> [pc : {"idle", "next", "send"},
                                         source : Sources, todo : Seq(HookAgents)]]
           /\ handler'[h] = [pc |-> pc, source |-> source, todo |-> list]
           /\ \A g \in Handlers : g # h => handler'[g] = handler[g]
<1>1. handler \in [Handlers -> [pc : {"idle", "next", "send"},
                                source : Sources, todo : Seq(HookAgents)]]
  BY DEF WebhookTypeOK
<1>2. [pc |-> pc, source |-> source, todo |-> list]
        \in [pc : {"idle", "next", "send"}, source : Sources, todo : Seq(HookAgents)]
  OBVIOUS
<1> QED
  BY <1>1, <1>2

\* The updates of one field, as updates of the handler's record.
LEMMA HandlerMoves ==
    ASSUME WebhookTypeOK, NEW h \in Handlers
    PROVE  LET c == handler[h] IN
           /\ \A pc : [handler EXCEPT ![h].pc = pc]
                        = [handler EXCEPT ![h] = [pc |-> pc, source |-> c.source, todo |-> c.todo]]
           /\ [handler EXCEPT ![h].todo = Tail(@)]
                = [handler EXCEPT ![h] = [pc |-> c.pc, source |-> c.source, todo |-> Tail(c.todo)]]
           /\ [handler EXCEPT ![h].pc = "next", ![h].todo = Tail(@)]
                = [handler EXCEPT ![h] = [pc |-> "next", source |-> c.source, todo |-> Tail(c.todo)]]
<1> DEFINE c == handler[h]
<1>1. c = [pc |-> c.pc, source |-> c.source, todo |-> c.todo] /\ DOMAIN handler = Handlers
  BY WebhookTypes
<1>2. /\ \A pc : [c EXCEPT !.pc = pc] = [pc |-> pc, source |-> c.source, todo |-> c.todo]
      /\ \A list : [c EXCEPT !.todo = list] = [pc |-> c.pc, source |-> c.source, todo |-> list]
  BY <1>1
<1>3. \A pc : [handler EXCEPT ![h].pc = pc]
                = [handler EXCEPT ![h] = [pc |-> pc, source |-> c.source, todo |-> c.todo]]
  BY <1>1, <1>2
<1>4. [handler EXCEPT ![h].todo = Tail(@)]
        = [handler EXCEPT ![h] = [pc |-> c.pc, source |-> c.source, todo |-> Tail(c.todo)]]
  <2>1. [handler EXCEPT ![h].todo = Tail(@)]
          = [handler EXCEPT ![h] = [c EXCEPT !.todo = Tail(c.todo)]]
    OBVIOUS
  <2>2. [c EXCEPT !.todo = Tail(c.todo)]
          = [pc |-> c.pc, source |-> c.source, todo |-> Tail(c.todo)]
    BY <1>2
  <2> QED
    BY <2>1, <2>2
<1>5. [handler EXCEPT ![h].pc = "next", ![h].todo = Tail(@)]
        = [handler EXCEPT ![h] = [pc |-> "next", source |-> c.source, todo |-> Tail(c.todo)]]
  <2> DEFINE moved == [handler EXCEPT ![h].pc = "next"]
             there == [pc |-> "next", source |-> c.source, todo |-> c.todo]
  <2>1. moved = [handler EXCEPT ![h] = there] /\ moved[h] = there /\ DOMAIN moved = Handlers
    BY <1>1, <1>3
  <2>2. there.todo = c.todo
    OBVIOUS
  <2>3. \A list : [there EXCEPT !.todo = list]
                    = [pc |-> "next", source |-> c.source, todo |-> list]
    OBVIOUS
  <2>4. [handler EXCEPT ![h].pc = "next", ![h].todo = Tail(@)]
          = [moved EXCEPT ![h] = [moved[h] EXCEPT !.todo = Tail(moved[h].todo)]]
    OBVIOUS
  <2> HIDE DEF there, moved
  <2>5. [moved[h] EXCEPT !.todo = Tail(moved[h].todo)]
          = [pc |-> "next", source |-> c.source, todo |-> Tail(c.todo)]
    BY <2>1, <2>2, <2>3
  <2>6. \A v : [moved EXCEPT ![h] = v] = [handler EXCEPT ![h] = v]
    BY <1>1, <2>1
  <2> QED
    BY <2>4, <2>5, <2>6
<1> QED
  BY <1>3, <1>4, <1>5

\* Registrations leave the handlers and the debouncer alone.
LEMMA RegistrationKeeps ==
    ASSUME WebhookInv,
           \/ \E a \in HookAgents : \E list \in TriggerLists[a] : UnregisterAgent(a, list)
           \/ RegisterAgent
    PROVE  WebhookInv'
<1>0. WebhookTypeOK
  BY DEF WebhookInv
<1>1. ASSUME NEW a \in HookAgents, NEW list \in TriggerLists[a], UnregisterAgent(a, list)
      PROVE  WebhookInv'
  <2>1. ASSUME NEW s \in Sources
        PROVE  Kept(agentMap[s], {i \in DOMAIN agentMap[s] : agentMap[s][i] # a}) \in Seq(HookAgents)
    <3>1. agentMap[s] \in Seq(HookAgents)
      BY <1>0, WebhookTypes
    <3> QED
      BY <3>1, KeptElements
  <2>2. agentMap' \in [Sources -> Seq(HookAgents)]
    BY <1>1, <2>1 DEF UnregisterAgent
  <2>3. reconciler' \in [agent : HookAgents, todo : Seq(Sources)]
    BY <1>1, WebhookConstants DEF UnregisterAgent
  <2>4. UNCHANGED <<handler, last, channel, sent>>
    BY <1>1 DEF UnregisterAgent
  <2>5. WebhookTypeOK'
    BY <1>0, <2>2, <2>3, <2>4 DEF WebhookTypeOK
  <2> QED
    BY <2>4, <2>5, WebhookKept
<1>2. CASE RegisterAgent
  <2>1. /\ Head(reconciler.todo) \in Sources /\ Tail(reconciler.todo) \in Seq(Sources)
    BY <1>0, <1>2, WebhookTypes DEF RegisterAgent
  <2>2. agentMap' \in [Sources -> Seq(HookAgents)]
    <3>1. Append(agentMap[Head(reconciler.todo)], reconciler.agent) \in Seq(HookAgents)
      BY <1>0, <2>1, WebhookTypes
    <3> QED
      BY <1>0, <1>2, <2>1, <3>1, WebhookTypes DEF RegisterAgent
  <2>3. reconciler' \in [agent : HookAgents, todo : Seq(Sources)]
    BY <1>0, <1>2, <2>1 DEF RegisterAgent, WebhookTypeOK
  <2>4. UNCHANGED <<handler, last, channel, sent>>
    BY <1>2 DEF RegisterAgent
  <2>5. WebhookTypeOK'
    BY <1>0, <2>2, <2>3, <2>4 DEF WebhookTypeOK
  <2> QED
    BY <2>4, <2>5, WebhookKept
<1> QED
  BY <1>1, <1>2

\* ShouldFire records the event, so that no other handler fires for it before
\* this one has sent.
LEMMA FireKeeps ==
    ASSUME WebhookInv, NEW h \in Handlers, Fire(h)
    PROVE  WebhookInv'
<1> DEFINE k == HandlerKey(h)
<1>0. WebhookTypeOK
  BY DEF WebhookInv
<1>1. /\ handler[h].pc = "next" /\ handler[h].todo # <<>> /\ last[k] = Window
      /\ last' = [last EXCEPT ![k] = 0] /\ UNCHANGED <<agentMap, reconciler, channel, sent>>
      /\ handler' = [handler EXCEPT ![h] = [pc |-> "send", source |-> handler[h].source,
                                            todo |-> handler[h].todo]]
  BY <1>0, HandlerMoves DEF Fire
<1>2. k \in Key /\ handler[h].source \in Sources /\ handler[h].todo \in Seq(HookAgents)
  BY <1>0, <1>1, WebhookTypes
<1>3. /\ handler' \in [Handlers -> [pc : {"idle", "next", "send"},
                                    source : Sources, todo : Seq(HookAgents)]]
      /\ handler'[h] = [pc |-> "send", source |-> handler[h].source, todo |-> handler[h].todo]
      /\ \A g \in Handlers : g # h => handler'[g] = handler[g]
  BY <1>0, <1>1, <1>2, HandlerTyped
<1>4. Window \in Nat /\ MaxStall \in Nat /\ MaxStall < Window
  BY <1>0, WebhookTypes
<1>5. WebhookTypeOK'
  <2>1. last \in [Key -> 0 .. Window] /\ 0 \in 0 .. Window
    BY <1>0, <1>4 DEF WebhookTypeOK
  <2>2. last' \in [Key -> 0 .. Window]
    BY <1>1, <2>1, Overwritten
  <2> QED
    BY <1>0, <1>1, <1>3, <2>2 DEF WebhookTypeOK
<1>6. sent[k] >= Window - MaxStall
  <2>1. last[k] <= sent[k] + MaxStall /\ sent[k] \in 0 .. Window
    BY <1>0, <1>2, WebhookTypes DEF WebhookInv
  <2> HIDE DEF k
  <2> QED
    BY <1>1, <1>4, <2>1
<1>7. \A j \in Key : last'[j] = IF j = k THEN 0 ELSE last[j]
  BY <1>0, <1>1, <1>2 DEF WebhookTypeOK
<1>8. HandlerKey(h)' = k
  BY <1>3 DEF HandlerKey
<1>9. ASSUME NEW g \in Handlers, g # h, handler'[g].pc = "send"
      PROVE  /\ handler[g].pc = "send" /\ HandlerKey(g)' = HandlerKey(g)
             /\ HandlerKey(g) # k /\ HandlerKey(g) \in Key
  <2>1. handler[g].pc = "send" /\ HandlerKey(g)' = HandlerKey(g)
    BY <1>3, <1>9 DEF HandlerKey
  <2>2. handler[g].todo # <<>> /\ last[HandlerKey(g)] <= MaxStall
    BY <2>1 DEF WebhookInv
  <2> QED
    BY <1>0, <1>1, <1>4, <2>1, <2>2, WebhookTypes
<1> HIDE DEF k
<1>10. \A j \in Key : last'[j] <= sent'[j] + MaxStall
  <2>1. ASSUME NEW j \in Key PROVE last'[j] <= sent'[j] + MaxStall
    <3>1. last[j] <= sent[j] + MaxStall /\ sent'[j] = sent[j] /\ sent[j] \in 0 .. Window
      BY <1>0, <1>1, WebhookTypes DEF WebhookInv
    <3> QED
      BY <1>4, <1>7, <3>1
  <2> QED
    BY <2>1
<1>11. ASSUME NEW g \in Handlers, handler'[g].pc = "send"
       PROVE  /\ handler'[g].todo # <<>>
              /\ last'[HandlerKey(g)'] <= MaxStall
              /\ sent'[HandlerKey(g)'] >= Window - MaxStall
              /\ \A f \in Handlers :
                   handler'[f].pc = "send" /\ HandlerKey(f)' = HandlerKey(g)' => f = g
  <2>1. CASE g = h
    <3>1. \A f \in Handlers : handler'[f].pc = "send" /\ HandlerKey(f)' = k => f = h
      BY <1>9
    <3> QED
      BY <1>1, <1>2, <1>3, <1>4, <1>6, <1>7, <1>8, <2>1, <3>1
  <2>2. CASE g # h
    <3>1. /\ handler[g].pc = "send" /\ HandlerKey(g)' = HandlerKey(g)
          /\ HandlerKey(g) # k /\ HandlerKey(g) \in Key /\ handler'[g] = handler[g]
      BY <1>3, <1>9, <1>11, <2>2
    <3>2. /\ handler[g].todo # <<>> /\ last[HandlerKey(g)] <= MaxStall
          /\ sent[HandlerKey(g)] >= Window - MaxStall
          /\ \A f \in Handlers :
               handler[f].pc = "send" /\ HandlerKey(f) = HandlerKey(g) => f = g
      BY <3>1 DEF WebhookInv
    <3>3. ASSUME NEW f \in Handlers, handler'[f].pc = "send", HandlerKey(f)' = HandlerKey(g)'
          PROVE  f = g
      <4>1. f # h
        BY <1>8, <3>1, <3>3
      <4> QED
        BY <1>9, <3>1, <3>2, <3>3, <4>1
    <3> QED
      BY <1>1, <1>7, <3>1, <3>2, <3>3
  <2> QED
    BY <2>1, <2>2
<1> QED
  BY <1>5, <1>10, <1>11 DEF WebhookInv

\* A trigger is queued by the one handler that recorded its event.
LEMMA QueueKeeps ==
    ASSUME WebhookInv, NEW h \in Handlers, QueueTrigger(h)
    PROVE  WebhookInv'
<1> DEFINE k == HandlerKey(h)
           t == [source |-> handler[h].source, agent |-> Head(handler[h].todo)]
<1>0. WebhookTypeOK
  BY DEF WebhookInv
<1>1. /\ handler[h].pc = "send" /\ Len(channel) < ChannelCap /\ channel' = Append(channel, t)
      /\ sent' = [sent EXCEPT ![k] = 0] /\ UNCHANGED <<agentMap, reconciler, last>>
      /\ handler' = [handler EXCEPT ![h] = [pc |-> "next", source |-> handler[h].source,
                                            todo |-> Tail(handler[h].todo)]]
  BY <1>0, HandlerMoves DEF QueueTrigger
<1>2. /\ handler[h].todo # <<>> /\ last[k] <= MaxStall
      /\ \A g \in Handlers : handler[g].pc = "send" /\ HandlerKey(g) = k => g = h
  BY <1>1 DEF WebhookInv
<1>3. /\ k \in Key /\ handler[h].source \in Sources /\ Head(handler[h].todo) \in HookAgents
      /\ Tail(handler[h].todo) \in Seq(HookAgents)
  BY <1>0, <1>2, WebhookTypes
<1>4. /\ handler' \in [Handlers -> [pc : {"idle", "next", "send"},
                                    source : Sources, todo : Seq(HookAgents)]]
      /\ handler'[h].pc = "next"
      /\ \A g \in Handlers : g # h => handler'[g] = handler[g]
  BY <1>0, <1>1, <1>3, HandlerTyped
<1>5. channel' \in Seq(Trigger) /\ Len(channel') <= ChannelCap
  <2>1. t \in Trigger
    BY <1>3 DEF Trigger
  <2> QED
    BY <1>0, <1>1, <2>1, WebhookTypes
<1>6. Window \in Nat /\ MaxStall \in Nat
  BY <1>0, WebhookTypes
<1>7. WebhookTypeOK'
  <2>1. sent \in [Key -> 0 .. Window] /\ 0 \in 0 .. Window
    BY <1>0, <1>6 DEF WebhookTypeOK
  <2>2. sent' \in [Key -> 0 .. Window]
    BY <1>1, <2>1, Overwritten
  <2> QED
    BY <1>0, <1>1, <1>4, <1>5, <2>2 DEF WebhookTypeOK
<1>8. \A j \in Key : sent'[j] = IF j = k THEN 0 ELSE sent[j]
  BY <1>0, <1>1, <1>3 DEF WebhookTypeOK
<1>9. \A j \in Key : last'[j] <= sent'[j] + MaxStall
  <2>1. ASSUME NEW j \in Key PROVE last'[j] <= sent'[j] + MaxStall
    <3>1. last[j] <= sent[j] + MaxStall /\ last'[j] = last[j] /\ last[j] \in 0 .. Window
      BY <1>0, <1>1, WebhookTypes DEF WebhookInv
    <3> HIDE DEF k
    <3> QED
      BY <1>2, <1>6, <1>8, <3>1
  <2> QED
    BY <2>1
<1>10. ASSUME NEW g \in Handlers, handler'[g].pc = "send"
       PROVE  /\ handler'[g].todo # <<>>
              /\ last'[HandlerKey(g)'] <= MaxStall
              /\ sent'[HandlerKey(g)'] >= Window - MaxStall
              /\ \A f \in Handlers :
                   handler'[f].pc = "send" /\ HandlerKey(f)' = HandlerKey(g)' => f = g
  <2>1. ASSUME NEW f \in Handlers, handler'[f].pc = "send"
        PROVE  /\ handler[f].pc = "send" /\ handler'[f] = handler[f]
               /\ HandlerKey(f)' = HandlerKey(f) /\ HandlerKey(f) # k
               /\ HandlerKey(f) \in Key
    <3>1. f # h /\ handler'[f] = handler[f]
      BY <1>4, <2>1
    <3>2. handler[f].pc = "send" /\ HandlerKey(f)' = HandlerKey(f)
      BY <2>1, <3>1 DEF HandlerKey
    <3>3. handler[f].todo # <<>>
      BY <3>2 DEF WebhookInv
    <3> QED
      BY <1>0, <1>2, <3>1, <3>2, <3>3, WebhookTypes
  <2>2. /\ handler[g].todo # <<>> /\ last[HandlerKey(g)] <= MaxStall
        /\ sent[HandlerKey(g)] >= Window - MaxStall
        /\ \A f \in Handlers :
             handler[f].pc = "send" /\ HandlerKey(f) = HandlerKey(g) => f = g
    BY <1>10, <2>1 DEF WebhookInv
  <2> HIDE DEF k
  <2> QED
    BY <1>1, <1>8, <1>10, <2>1, <2>2
<1> QED
  BY <1>7, <1>9, <1>10 DEF WebhookInv

\* The other steps of a handler leave the debouncer alone.
LEMMA HandlerKeeps ==
    ASSUME WebhookInv, NEW h \in Handlers,
           \/ Debounced(h) \/ DropTrigger(h) \/ Reply(h)
           \/ \E s \in Sources : Lookup(h, s)
    PROVE  WebhookInv'
<1>0. WebhookTypeOK
  BY DEF WebhookInv
<1>1. ASSUME NEW pc \in {"idle", "next"}, NEW source \in Sources, NEW list \in Seq(HookAgents),
             handler' = [handler EXCEPT ![h] = [pc |-> pc, source |-> source, todo |-> list]],
             UNCHANGED <<agentMap, reconciler, last, channel, sent>>
      PROVE  WebhookInv'
  <2>1. /\ handler' \in [Handlers -> [pc : {"idle", "next", "send"},
                                      source : Sources, todo : Seq(HookAgents)]]
        /\ handler'[h] = [pc |-> pc, source |-> source, todo |-> list]
        /\ \A g \in Handlers : g # h => handler'[g] = handler[g]
    BY <1>0, <1>1, HandlerTyped
  <2>2. WebhookTypeOK'
    BY <1>0, <1>1, <2>1 DEF WebhookTypeOK
  <2>3. \A g \in Handlers : handler'[g].pc = "send" =>
            handler[g].pc = "send" /\ handler'[g] = handler[g]
    <3>1. handler'[h].pc # "send"
      BY <2>1
    <3> QED
      BY <2>1, <3>1
  <2> QED
    BY <1>1, <2>2, <2>3, WebhookKept
<1>2. handler[h].source \in Sources /\ handler[h].todo \in Seq(HookAgents)
  BY <1>0, WebhookTypes
<1>3. CASE Debounced(h)
  <2>1. Tail(handler[h].todo) \in Seq(HookAgents)
    BY <1>2, <1>3, HeadAndTail DEF Debounced
  <2> QED
    BY <1>0, <1>1, <1>2, <1>3, <2>1, HandlerMoves DEF Debounced
<1>4. CASE DropTrigger(h)
  <2>1. Tail(handler[h].todo) \in Seq(HookAgents)
    BY <1>2, <1>4, HeadAndTail DEF DropTrigger, WebhookInv
  <2> QED
    BY <1>0, <1>1, <1>2, <1>4, <2>1, HandlerMoves DEF DropTrigger
<1>5. CASE Reply(h)
  <2>1. handler' = [handler EXCEPT ![h] = [pc |-> "idle", source |-> handler[h].source,
                                           todo |-> handler[h].todo]]
    BY <1>0, <1>5, HandlerMoves DEF Reply
  <2> QED
    BY <1>1, <1>2, <1>5, <2>1 DEF Reply
<1>6. ASSUME NEW s \in Sources, Lookup(h, s)
      PROVE  WebhookInv'
  <2>1. agentMap[s] \in Seq(HookAgents)
    BY <1>0, WebhookTypes
  <2> QED
    BY <1>1, <1>6, <2>1 DEF Lookup
<1> QED
  BY <1>3, <1>4, <1>5, <1>6

\* Every step keeps the invariant.
LEMMA WebhookInvStep ==
    ASSUME WebhookInv, [WebhookNext]_webhookVars
    PROVE  WebhookInv'
<1>0. WebhookTypeOK
  BY DEF WebhookInv
<1>1. CASE ReceiveTrigger
  <2>1. UNCHANGED <<agentMap, reconciler, handler, last, sent>>
    BY <1>1 DEF ReceiveTrigger
  <2>2. channel' \in Seq(Trigger) /\ Len(channel') <= ChannelCap
    <3>1. channel \in Seq(Trigger) /\ channel # <<>> /\ channel' = Tail(channel)
      BY <1>0, <1>1, WebhookTypes DEF ReceiveTrigger
    <3>2. Len(Tail(channel)) = Len(channel) - 1
      BY <3>1
    <3> QED
      BY <1>0, <3>1, <3>2, HeadAndTail, WebhookTypes
  <2>3. WebhookTypeOK'
    BY <1>0, <2>1, <2>2 DEF WebhookTypeOK
  <2> QED
    BY <2>1, <2>3, WebhookKept
<1>2. CASE WebhookTick
  <2>1. /\ UNCHANGED <<agentMap, reconciler, handler, channel>>
        /\ \A h \in Handlers : handler[h].pc = "send" => last[HandlerKey(h)] < MaxStall
        /\ last' = [k \in Key |-> HookOlder(last[k])]
        /\ sent' = [k \in Key |-> HookOlder(sent[k])]
    BY <1>2 DEF WebhookTick
  <2>2. Window \in Nat /\ MaxStall \in Nat /\ MaxStall < Window
    BY <1>0, WebhookTypes
  <2>3. ASSUME NEW k \in Key
        PROVE  /\ last'[k] \in 0 .. Window /\ sent'[k] \in 0 .. Window
               /\ last'[k] <= last[k] + 1 /\ sent[k] <= sent'[k]
               /\ last'[k] <= sent'[k] + MaxStall
    <3>1. /\ last[k] \in 0 .. Window /\ sent[k] \in 0 .. Window
          /\ last[k] <= sent[k] + MaxStall
      BY <1>0, WebhookTypes DEF WebhookInv
    <3>2. last'[k] = HookOlder(last[k]) /\ sent'[k] = HookOlder(sent[k])
      BY <2>1
    <3> QED
      BY <2>2, <3>1, <3>2 DEF HookOlder
  <2>4. WebhookTypeOK'
    <3>1. /\ \A k \in Key : HookOlder(last[k]) \in 0 .. Window
          /\ \A k \in Key : HookOlder(sent[k]) \in 0 .. Window
      BY <2>1, <2>3
    <3> QED
      BY <1>0, <2>1, <3>1 DEF WebhookTypeOK
  <2>5. ASSUME NEW h \in Handlers, handler'[h].pc = "send"
        PROVE  /\ handler'[h].todo # <<>>
               /\ last'[HandlerKey(h)'] <= MaxStall
               /\ sent'[HandlerKey(h)'] >= Window - MaxStall
               /\ \A g \in Handlers :
                    handler'[g].pc = "send" /\ HandlerKey(g)' = HandlerKey(h)' => g = h
    <3>1. handler' = handler /\ \A g \in Handlers : HandlerKey(g)' = HandlerKey(g)
      BY <2>1 DEF HandlerKey
    <3>2. /\ handler[h].todo # <<>> /\ sent[HandlerKey(h)] >= Window - MaxStall
          /\ last[HandlerKey(h)] < MaxStall
          /\ \A g \in Handlers :
               handler[g].pc = "send" /\ HandlerKey(g) = HandlerKey(h) => g = h
      BY <2>1, <2>5, <3>1 DEF WebhookInv
    <3>3. /\ HandlerKey(h) \in Key
          /\ last[HandlerKey(h)] \in 0 .. Window /\ sent[HandlerKey(h)] \in 0 .. Window
      BY <1>0, <3>2, WebhookTypes
    <3> QED
      BY <2>2, <2>3, <3>1, <3>2, <3>3
  <2> QED
    BY <2>3, <2>4, <2>5 DEF WebhookInv
<1>3. CASE UNCHANGED webhookVars
  <2>1. UNCHANGED <<agentMap, reconciler, handler, last, channel, sent>>
    BY <1>3 DEF webhookVars
  <2>2. WebhookTypeOK'
    BY <1>0, <2>1 DEF WebhookTypeOK
  <2> QED
    BY <2>1, <2>2, WebhookKept
<1> QED
  BY <1>1, <1>2, <1>3, RegistrationKeeps, FireKeeps, QueueKeeps, HandlerKeeps
     DEF WebhookNext, HandlerStep

\* The invariant holds in every reachable state.
THEOREM WebhookInvariant == WebhookSpec => []WebhookInv
  BY WebhookInvInit, WebhookInvStep, PTL DEF WebhookSpec

\* Whatever requests are served at the same time, no two triggers of a source
\* are queued for an agent within one debounce window less MaxStall, for every
\* number of handlers, agents and sources and every window.
THEOREM SendsAreDebounced == WebhookSpec => DebouncedSends
<1>1. WebhookInv /\ [WebhookNext]_webhookVars =>
        [(Len(channel') > Len(channel)) =>
           LET t == channel'[Len(channel')]
           IN sent[<<t.source, t.agent>>] >= Window - MaxStall]_webhookVars
  <2> SUFFICES ASSUME WebhookInv, WebhookNext, Len(channel') > Len(channel)
               PROVE  sent[<<channel'[Len(channel')].source, channel'[Len(channel')].agent>>]
                    >= Window - MaxStall
    OBVIOUS
  <2>0. WebhookTypeOK /\ channel \in Seq(Trigger) /\ Len(channel) \in Nat
    BY WebhookTypes DEF WebhookInv
  <2>1. channel' # channel
    BY <2>0
  <2>2. CASE ReceiveTrigger
    <3>1. Len(Tail(channel)) = Len(channel) - 1
      BY <2>0, <2>2 DEF ReceiveTrigger
    <3> QED
      BY <2>0, <2>2, <3>1 DEF ReceiveTrigger
  <2>3. ASSUME NEW h \in Handlers, QueueTrigger(h)
        PROVE  sent[<<channel'[Len(channel')].source, channel'[Len(channel')].agent>>]
                    >= Window - MaxStall
    <3> DEFINE t == [source |-> handler[h].source, agent |-> Head(handler[h].todo)]
    <3>1. handler[h].pc = "send" /\ channel' = Append(channel, t)
      BY <2>3 DEF QueueTrigger
    <3>2. handler[h].todo # <<>> /\ sent[HandlerKey(h)] >= Window - MaxStall
      BY <3>1 DEF WebhookInv
    <3>3. t \in Trigger
      BY <2>0, <3>2, WebhookTypes DEF Trigger
    <3>4. channel'[Len(channel')] = t
      <4> HIDE DEF t
      <4> QED
        BY <2>0, <3>1, <3>3
    <3> QED
      BY <3>2, <3>4 DEF HandlerKey
  <2> QED
    BY <2>1, <2>2, <2>3
       DEF WebhookNext, HandlerStep, UnregisterAgent, RegisterAgent, Fire, Debounced,
           DropTrigger, Reply, Lookup, WebhookTick
<1> QED
  BY <1>1, WebhookInvariant, PTL DEF WebhookSpec, DebouncedSends

-----------------------------------------------------------------------------
(* Notify.                                                                 *)

\* What makes a sequence of elements of S.
LEMMA Elements ==
    ASSUME NEW S
    PROVE  /\ \A s \in Seq(S) : /\ Len(s) \in Nat /\ DOMAIN s = 1 .. Len(s)
                                /\ s = [i \in 1 .. Len(s) |-> s[i]]
                                /\ \A i \in 1 .. Len(s) : s[i] \in S
           /\ \A s : \A n \in Nat :
                s = [i \in 1 .. n |-> s[i]] /\ (\A i \in 1 .. n : s[i] \in S)
                  => s \in Seq(S) /\ Len(s) = n
  OBVIOUS

\* The entries of the last hour are those the limiter counts.
LEMMA YoungEntries ==
    ASSUME NEW ages \in Seq(0 .. Hour + 1)
    PROVE  /\ Young(ages) \in Seq(0 .. Hour)
           /\ \A k \in 0 .. Hour : CountIn(Young(ages), 0 .. k) = CountIn(ages, 0 .. k)
           /\ Len(Young(ages)) = CountIn(ages, 0 .. Hour)
<1> DEFINE keep == {i \in DOMAIN ages : ages[i] <= Hour}
           young == Kept(ages, keep)
           n == Len(young)
<1>1. Hour \in Nat /\ Young(ages) = young
  BY NotifyConstants DEF Young
<1>2. DOMAIN ages = 1 .. Len(ages) /\ \A i \in DOMAIN ages : ages[i] \in 0 .. Hour + 1
  BY Elements
<1>3. /\ young \in Seq(0 .. Hour + 1)
      /\ \A Q : CountIn(young, Q) = Cardinality(KeptIn(ages, keep, Q))
  <2> DEFINE S == 0 .. Hour + 1
  <2>1. ages \in Seq(S)
    OBVIOUS
  <2> HIDE DEF S, keep
  <2>2. Kept(ages, keep) \in Seq(S)
    BY <2>1, KeptElements
  <2>3. ASSUME NEW Q
        PROVE  CountIn(Kept(ages, keep), Q) = Cardinality(KeptIn(ages, keep, Q))
    BY <2>1, KeptElements
  <2> QED
    BY <2>2, <2>3 DEF S
<1>4. ASSUME NEW k \in 0 .. Hour
      PROVE  CountIn(young, 0 .. k) = CountIn(ages, 0 .. k)
  <2>1. KeptIn(ages, keep, 0 .. k) = {i \in DOMAIN ages : ages[i] \in 0 .. k}
    BY <1>1, <1>2 DEF KeptIn
  <2> QED
    BY <1>3, <2>1 DEF CountIn
<1> HIDE DEF young
<1>5. n \in Nat /\ DOMAIN young = 1 .. n /\ \A i \in 1 .. n : young[i] \in 0 .. Hour + 1
  BY <1>3, Elements
<1>6. \A i \in 1 .. n : young[i] \in 0 .. Hour
  <2>1. CountIn(young, {Hour + 1}) = 0
    <3>1. KeptIn(ages, keep, {Hour + 1}) = {}
      BY <1>1 DEF KeptIn
    <3> QED
      BY <1>3, <3>1, FS_EmptySet
  <2>2. IsFiniteSet({i \in DOMAIN young : young[i] \in {Hour + 1}})
    <3>1. IsFiniteSet(DOMAIN young)
      BY <1>5, FS_Interval
    <3> QED
      BY <3>1, FS_Subset
  <2>3. {i \in DOMAIN young : young[i] \in {Hour + 1}} = {}
    BY <2>1, <2>2, FS_EmptySet DEF CountIn
  <2>4. \A i \in 1 .. n : young[i] # Hour + 1
    BY <1>5, <2>3
  <2> QED
    BY <1>1, <1>5, <2>4
<1>7. young \in Seq(0 .. Hour)
  <2>1. young = [i \in 1 .. n |-> young[i]]
    BY <1>3, Elements
  <2> QED
    BY <1>5, <1>6, <2>1, Elements
<1>8. n = CountIn(young, 0 .. Hour)
  <2>1. {i \in DOMAIN young : young[i] \in 0 .. Hour} = 1 .. n
    BY <1>5, <1>6
  <2> HIDE DEF n
  <2>2. Cardinality(1 .. n) = n
    BY <1>5, FS_Interval
  <2> QED
    BY <2>1, <2>2 DEF CountIn
<1> QED
  BY <1>1, <1>4, <1>7, <1>8

\* Entries within the window are all counted.
LEMMA CountAll ==
    ASSUME NEW ages \in Seq(0 .. Hour)
    PROVE  CountIn(ages, 0 .. Hour) = Len(ages) /\ ages \in Seq(0 .. Hour + 1)
<1> DEFINE n == Len(ages)
<1>1. /\ Hour \in Nat /\ n \in Nat /\ DOMAIN ages = 1 .. n
      /\ ages = [i \in 1 .. n |-> ages[i]] /\ \A i \in 1 .. n : ages[i] \in 0 .. Hour
  BY NotifyConstants, Elements
<1> HIDE DEF n
<1>2. {i \in DOMAIN ages : ages[i] \in 0 .. Hour} = 1 .. n
  BY <1>1
<1>3. Cardinality(1 .. n) = n
  <2>1. n \in Nat
    BY <1>1
  <2> QED
    BY <2>1, FS_Interval
<1>4. ages \in Seq(0 .. Hour + 1)
  <2>1. \A i \in 1 .. n : ages[i] \in 0 .. Hour + 1
    BY <1>1
  <2> QED
    BY <1>1, <2>1, Elements
<1> QED
  BY <1>2, <1>3, <1>4 DEF CountIn, n

\* A tick makes every entry one older.
LEMMA OlderEntries ==
    ASSUME NEW ages \in Seq(0 .. Hour + 1)
    PROVE  /\ Older(ages) \in Seq(0 .. Hour + 1)
           /\ CountIn(Older(ages), 0 .. 0) = 0
           /\ \A k \in 1 .. Hour : CountIn(Older(ages), 0 .. k) = CountIn(ages, 0 .. (k - 1))
<1>1. Hour \in Nat /\ Len(ages) \in Nat /\ DOMAIN ages = 1 .. Len(ages)
  BY NotifyConstants
<1>2. \A i \in 1 .. Len(ages) : ages[i] \in 0 .. Hour + 1
  BY Elements
<1>3. /\ DOMAIN Older(ages) = 1 .. Len(ages)
      /\ \A i \in 1 .. Len(ages) :
           Older(ages)[i] = IF ages[i] > Hour THEN ages[i] ELSE ages[i] + 1
  BY <1>1 DEF Older
<1>4. \A i \in 1 .. Len(ages) : Older(ages)[i] \in 1 .. Hour + 1
  BY <1>1, <1>2, <1>3
<1>5. Older(ages) \in Seq(0 .. Hour + 1)
  <2>1. Older(ages) = [i \in 1 .. Len(ages) |-> Older(ages)[i]]
    BY <1>1 DEF Older
  <2>2. \A i \in 1 .. Len(ages) : Older(ages)[i] \in 0 .. Hour + 1
    BY <1>1, <1>4
  <2> QED
    BY <1>1, <2>1, <2>2, Elements
<1>6. CountIn(Older(ages), 0 .. 0) = 0
  <2>1. {i \in DOMAIN Older(ages) : Older(ages)[i] \in 0 .. 0} = {}
    BY <1>3, <1>4
  <2> QED
    BY <2>1, FS_EmptySet DEF CountIn
<1>7. ASSUME NEW k \in 1 .. Hour
      PROVE  CountIn(Older(ages), 0 .. k) = CountIn(ages, 0 .. (k - 1))
  <2>1. \A i \in 1 .. Len(ages) : Older(ages)[i] \in 0 .. k <=> ages[i] \in 0 .. (k - 1)
    BY <1>1, <1>2, <1>3
  <2>2. {i \in DOMAIN Older(ages) : Older(ages)[i] \in 0 .. k}
          = {i \in DOMAIN ages : ages[i] \in 0 .. (k - 1)}
    BY <1>1, <1>3, <2>1
  <2> QED
    BY <2>2 DEF CountIn
<1> QED
  BY <1>5, <1>6, <1>7

\* The channels of a list, of its parts and of lists put together.
LEMMA ListedChannels ==
    /\ Range(<<>>) = {}
    /\ \A S : \A s, t \in Seq(S) : /\ s \o t \in Seq(S)
                                   /\ Range(s \o t) = Range(s) \cup Range(t)
                                   /\ s \o t = <<>> <=> s = <<>> /\ t = <<>>
    /\ \A S : \A s \in Seq(S) : s # <<>> => Range(s) = {Head(s)} \cup Range(Tail(s))
<1>1. Range(<<>>) = {}
  BY DEF Range
<1>2. ASSUME NEW S, NEW s \in Seq(S), NEW t \in Seq(S)
      PROVE  /\ s \o t \in Seq(S)
             /\ Range(s \o t) = Range(s) \cup Range(t)
             /\ s \o t = <<>> <=> s = <<>> /\ t = <<>>
  <2>1. /\ Len(s) \in Nat /\ Len(t) \in Nat /\ DOMAIN s = 1 .. Len(s) /\ DOMAIN t = 1 .. Len(t)
        /\ s \o t \in Seq(S) /\ Len(s \o t) = Len(s) + Len(t)
        /\ DOMAIN (s \o t) = 1 .. (Len(s) + Len(t))
        /\ \A i \in 1 .. (Len(s) + Len(t)) :
             (s \o t)[i] = IF i <= Len(s) THEN s[i] ELSE t[i - Len(s)]
    OBVIOUS
  <2>2. ASSUME NEW x \in Range(s \o t) PROVE x \in Range(s) \cup Range(t)
    <3>1. PICK i \in 1 .. (Len(s) + Len(t)) : x = (s \o t)[i]
      BY <2>1 DEF Range
    <3>2. CASE i <= Len(s)
      BY <2>1, <3>1, <3>2 DEF Range
    <3>3. CASE ~(i <= Len(s))
      <4>1. i - Len(s) \in 1 .. Len(t) /\ x = t[i - Len(s)]
        BY <2>1, <3>1, <3>3
      <4> QED
        BY <2>1, <4>1 DEF Range
    <3> QED
      BY <3>2, <3>3
  <2>3. ASSUME NEW x \in Range(s) PROVE x \in Range(s \o t)
    <3>1. PICK i \in 1 .. Len(s) : x = s[i]
      BY <2>1 DEF Range
    <3>2. i \in 1 .. (Len(s) + Len(t)) /\ (s \o t)[i] = x
      BY <2>1, <3>1
    <3> QED
      BY <2>1, <3>2 DEF Range
  <2>4. ASSUME NEW x \in Range(t) PROVE x \in Range(s \o t)
    <3>1. PICK i \in 1 .. Len(t) : x = t[i]
      BY <2>1 DEF Range
    <3>2. i + Len(s) \in 1 .. (Len(s) + Len(t)) /\ (s \o t)[i + Len(s)] = x
      BY <2>1, <3>1
    <3> QED
      BY <2>1, <3>2 DEF Range
  <2>5. s \o t = <<>> <=> s = <<>> /\ t = <<>>
    BY <2>1
  <2> QED
    BY <2>1, <2>2, <2>3, <2>4, <2>5
<1>3. ASSUME NEW S, NEW s \in Seq(S), s # <<>>
      PROVE  Range(s) = {Head(s)} \cup Range(Tail(s))
  <2>1. /\ Len(s) \in Nat /\ Len(s) > 0 /\ DOMAIN s = 1 .. Len(s) /\ Head(s) = s[1]
        /\ DOMAIN Tail(s) = 1 .. (Len(s) - 1)
        /\ \A i \in 1 .. (Len(s) - 1) : Tail(s)[i] = s[i + 1]
    BY <1>3
  <2>2. ASSUME NEW x \in Range(s) PROVE x \in {Head(s)} \cup Range(Tail(s))
    <3>1. PICK i \in 1 .. Len(s) : x = s[i]
      BY <2>1 DEF Range
    <3>2. CASE i = 1
      BY <2>1, <3>1, <3>2
    <3>3. CASE i # 1
      <4>1. i - 1 \in 1 .. (Len(s) - 1) /\ (i - 1) + 1 = i
        BY <2>1, <3>3
      <4>2. Tail(s)[i - 1] = x
        BY <2>1, <3>1, <4>1
      <4> QED
        BY <2>1, <4>1, <4>2 DEF Range
    <3> QED
      BY <3>2, <3>3
  <2>3. ASSUME NEW x \in {Head(s)} \cup Range(Tail(s)) PROVE x \in Range(s)
    <3>1. CASE x = Head(s)
      BY <2>1, <3>1 DEF Range
    <3>2. CASE x \in Range(Tail(s))
      <4>1. PICK i \in 1 .. (Len(s) - 1) : x = Tail(s)[i]
        BY <2>1, <3>2 DEF Range
      <4>2. i + 1 \in 1 .. Len(s) /\ x = s[i + 1]
        BY <2>1, <4>1
      <4> QED
        BY <2>1, <4>2 DEF Range
    <3> QED
      BY <2>3, <3>1, <3>2
  <2> QED
    BY <2>2, <2>3
<1> QED
  BY <1>1, <1>2, <1>3

\* What the limiter may remember and let through.
LimiterSound ==
    /\ recent \in [NotifyAgents -> Seq(0 .. Hour + 1)]
    /\ passed \in [NotifyAgents -> Seq(0 .. Hour)]
    /\ \A a \in NotifyAgents, k \in 0 .. Hour :
         CountIn(recent[a], 0 .. k) = CountIn(passed[a], 0 .. k)
    /\ NotificationsLimited

\* A notification that may be one of notifier n.
Deliverable(c) ==
    /\ c \in [pc : {"idle", "routed", "sending", "done", "limited"}, agent : NotifyAgents,
              severity : Severities, todo : Seq(Range(Channels)), tried : SUBSET Range(Channels)]
    /\ c.pc \in {"routed", "sending"} =>
         c.todo # <<>> /\ Range(c.todo) \cup c.tried = Range(Channels)
    /\ c.pc = "done" => c.tried = Range(Channels)

\* The invariant in the two halves that no step mixes.
LEMMA NotifyHalves ==
    NotifyInv <=> /\ LimiterSound
                  /\ notifier \in [Notifiers ->
                       [pc : {"idle", "routed", "sending", "done", "limited"},
                        agent : NotifyAgents, severity : Severities,
                        todo : Seq(Range(Channels)), tried : SUBSET Range(Channels)]]
                  /\ \A n \in Notifiers : Deliverable(notifier[n])
  BY DEF NotifyInv, NotifyTypeOK, AllWithinLimit, EveryChannelTried, LimiterSound, Deliverable

\* One notifier moves on.
LEMMA NotifierStep ==
    ASSUME NotifyInv, NEW n \in Notifiers, NEW c, Deliverable(c),
           notifier' = [notifier EXCEPT ![n] = c], LimiterSound'
    PROVE  NotifyInv'
<1> DEFINE R == [pc : {"idle", "routed", "sending", "done", "limited"}, agent : NotifyAgents,
                 severity : Severities, todo : Seq(Range(Channels)),
                 tried : SUBSET Range(Channels)]
<1>1. /\ notifier \in [Notifiers -> R] /\ c \in R
      /\ \A m \in Notifiers : Deliverable(notifier[m])
  BY NotifyHalves DEF Deliverable
<1> HIDE DEF R
<1>2. /\ notifier' \in [Notifiers -> R]
      /\ \A m \in Notifiers : notifier'[m] = IF m = n THEN c ELSE notifier[m]
  BY <1>1
<1>3. \A m \in Notifiers : Deliverable(notifier'[m])
  BY <1>1, <1>2
<1>4. NotifyInv' <=> /\ LimiterSound'
                     /\ notifier' \in [Notifiers -> R]
                     /\ \A m \in Notifiers : Deliverable(notifier'[m])
  BY DEF NotifyInv, NotifyTypeOK, AllWithinLimit, EveryChannelTried, LimiterSound, Deliverable,
         NotificationsLimited, R
<1> QED
  BY <1>2, <1>3, <1>4

\* The limiter is left alone.
LEMMA LimiterKept ==
    ASSUME LimiterSound, UNCHANGED <<recent, passed>>
    PROVE  LimiterSound'
  BY DEF LimiterSound, NotificationsLimited

\* Nothing was sent at first.
LEMMA NotifyInvInit == NotifyInit => NotifyInv
<1> SUFFICES ASSUME NotifyInit PROVE NotifyInv
  OBVIOUS
<1> DEFINE a0 == CHOOSE a \in NotifyAgents : TRUE
<1>1. a0 \in NotifyAgents /\ MaxPerHour \in Nat /\ Hour \in Nat
  BY NotifyConstants
<1>2. \A S : <<>> \in Seq(S)
  OBVIOUS
<1>3. LimiterSound
  <2>1. /\ recent \in [NotifyAgents -> Seq(0 .. Hour + 1)]
        /\ passed \in [NotifyAgents -> Seq(0 .. Hour)]
        /\ \A a \in NotifyAgents : recent[a] = <<>> /\ passed[a] = <<>>
    BY <1>2 DEF NotifyInit
  <2>2. Len(<<>>) = 0
    OBVIOUS
  <2> QED
    BY <1>1, <2>1, <2>2 DEF LimiterSound, NotificationsLimited
<1> HIDE DEF a0
<1>4. Deliverable(NoNotification(a0))
  BY <1>1, <1>2 DEF Deliverable, NoNotification, Severities
<1>5. notifier = [n \in Notifiers |-> NoNotification(a0)]
  BY DEF NotifyInit, a0
<1>6. \A n \in Notifiers : Deliverable(notifier[n])
  BY <1>4, <1>5
<1>7. notifier \in [Notifiers ->
         [pc : {"idle", "routed", "sending", "done", "limited"}, agent : NotifyAgents,
          severity : Severities, todo : Seq(Range(Channels)), tried : SUBSET Range(Channels)]]
  <2>1. NoNotification(a0) \in
         [pc : {"idle", "routed", "sending", "done", "limited"}, agent : NotifyAgents,
          severity : Severities, todo : Seq(Range(Channels)), tried : SUBSET Range(Channels)]
    BY <1>4 DEF Deliverable
  <2> QED
    BY <1>5, <2>1
<1> QED
  BY <1>3, <1>6, <1>7, NotifyHalves

\* The lists of a severity have every channel on them.
LEMMA RoutedToAll ==
    ASSUME NEW severity \in Severities
    PROVE  /\ channelsForSeverity(severity) \in Seq(Range(Channels))
           /\ Range(channelsForSeverity(severity)) = Range(Channels)
<1> DEFINE S == Range(Channels)
<1>1. Channels \in Seq(S)
  <2>1. /\ Len(Channels) \in Nat /\ DOMAIN Channels = 1 .. Len(Channels)
        /\ Channels = [i \in 1 .. Len(Channels) |-> Channels[i]]
    BY NotifyConstants, Elements
  <2>2. \A i \in 1 .. Len(Channels) : Channels[i] \in S
    BY <2>1 DEF Range
  <2> HIDE DEF S
  <2> QED
    BY <2>1, <2>2, Elements
<1>0. Range(Channels) = S
  OBVIOUS
<1> HIDE DEF S
<1>2. Channels \o Channels \in Seq(S) /\ Range(Channels \o Channels) = S
  BY <1>0, <1>1, ListedChannels
<1>3. /\ (Channels \o Channels) \o Channels \in Seq(S)
      /\ Range((Channels \o Channels) \o Channels) = S
  <2> DEFINE twice == Channels \o Channels
  <2>1. twice \in Seq(S) /\ Range(twice) = S
    BY <1>2
  <2> HIDE DEF twice
  <2>2. twice \o Channels \in Seq(S) /\ Range(twice \o Channels) = Range(twice) \cup Range(Channels)
    BY <1>1, <2>1, ListedChannels
  <2> QED
    BY <1>0, <2>1, <2>2 DEF twice
<1>4. CASE severity = "critical"
  BY <1>0, <1>3, <1>4 DEF channelsForSeverity, S
<1>5. CASE severity = "warning"
  BY <1>0, <1>2, <1>5 DEF channelsForSeverity, S
<1>6. CASE severity = "info"
  BY <1>0, <1>1, <1>6 DEF channelsForSeverity, S
<1> QED
  BY <1>4, <1>5, <1>6 DEF Severities

\* NotifyFunc begins with every channel on its list.
LEMMA NotifyFuncKeeps ==
    ASSUME NotifyInv, NEW n \in Notifiers, NEW a \in NotifyAgents, NEW phase, NEW e \in 0 .. 1,
           NotifyFunc(n, a, phase, e)
    PROVE  NotifyInv'
<1> DEFINE severity == SeverityOf(phase, e)
           list == channelsForSeverity(severity)
           pc == IF list = <<>> THEN "done" ELSE "routed"
           c == [pc |-> pc, agent |-> a, severity |-> severity, todo |-> list, tried |-> {}]
<1>1. severity \in Severities
  BY DEF SeverityOf, Severities
<1> HIDE DEF severity
<1>2. list \in Seq(Range(Channels)) /\ Range(list) = Range(Channels)
  BY <1>1, RoutedToAll
<1> HIDE DEF list
<1> HIDE DEF pc
<1>3. [NoNotification(a) EXCEPT !.severity = severity, !.todo = list, !.pc = pc] = c
  <2> DEFINE R(p, v, l) == [pc |-> p, agent |-> a, severity |-> v, todo |-> l, tried |-> {}]
  <2>1. \A p, v, l, x : [R(p, v, l) EXCEPT !.severity = x] = R(p, x, l)
    OBVIOUS
  <2>2. \A p, v, l, x : [R(p, v, l) EXCEPT !.todo = x] = R(p, v, x)
    OBVIOUS
  <2>3. \A p, v, l, x : [R(p, v, l) EXCEPT !.pc = x] = R(x, v, l)
    OBVIOUS
  <2>5. NoNotification(a) = R("idle", "info", <<>>) /\ c = R(pc, severity, list)
    BY DEF NoNotification
  <2>4. [NoNotification(a) EXCEPT !.severity = severity, !.todo = list, !.pc = pc]
          = [[[NoNotification(a) EXCEPT !.severity = severity] EXCEPT !.todo = list] EXCEPT !.pc = pc]
    OBVIOUS
  <2> HIDE DEF R, c
  <2>6. [NoNotification(a) EXCEPT !.severity = severity] = R("idle", severity, <<>>)
    BY <2>1, <2>5
  <2>7. [R("idle", severity, <<>>) EXCEPT !.todo = list] = R("idle", severity, list)
    BY <2>2
  <2>8. [R("idle", severity, list) EXCEPT !.pc = pc] = c
    BY <2>3, <2>5
  <2> QED
    BY <2>4, <2>6, <2>7, <2>8
<1>4. notifier' = [notifier EXCEPT ![n] = c] /\ UNCHANGED <<recent, passed>>
  BY <1>3 DEF NotifyFunc, severity, list, pc
<1>5. Deliverable(c)
  <2>1. CASE list = <<>>
    <3>1. Range(Channels) = {}
      BY <1>2, <2>1, ListedChannels
    <3> QED
      BY <1>1, <1>2, <2>1, <3>1 DEF Deliverable, pc
  <2>2. CASE list # <<>>
    BY <1>1, <1>2, <2>2 DEF Deliverable, pc
  <2> QED
    BY <2>1, <2>2
<1> HIDE DEF c
<1> QED
  BY <1>4, <1>5, NotifierStep, LimiterKept, NotifyHalves

\* The loop of Router.Notify moves a channel from the list to the tried ones.
LEMMA SendNextKeeps ==
    ASSUME NotifyInv, NEW n \in Notifiers, NEW status, SendNext(n, status)
    PROVE  NotifyInv'
<1> DEFINE d == notifier[n]
           ch == Head(d.todo)
           rest == Tail(d.todo)
           pc == IF rest = <<>> THEN "done" ELSE d.pc
           c == [pc |-> pc, agent |-> d.agent, severity |-> d.severity, todo |-> rest,
                 tried |-> d.tried \cup {ch}]
<1>1. Deliverable(d) /\ d.pc = "sending" /\ DOMAIN notifier = Notifiers
  BY NotifyHalves DEF SendNext
<1>2. /\ d = [pc |-> d.pc, agent |-> d.agent, severity |-> d.severity, todo |-> d.todo,
              tried |-> d.tried]
      /\ d.agent \in NotifyAgents /\ d.severity \in Severities
      /\ d.todo \in Seq(Range(Channels)) /\ d.tried \subseteq Range(Channels)
      /\ d.todo # <<>> /\ Range(d.todo) \cup d.tried = Range(Channels)
  BY <1>1 DEF Deliverable
<1>3. ch \in Range(Channels) /\ rest \in Seq(Range(Channels)) /\ Range(d.todo) = {ch} \cup Range(rest)
  BY <1>2, HeadAndTail, ListedChannels
<1>4. notifier' = [notifier EXCEPT ![n] = c] /\ UNCHANGED <<recent, passed>>
  <2> DEFINE tried == d.tried \cup {ch}
             f1 == [notifier EXCEPT ![n].todo = rest]
             c1 == [pc |-> d.pc, agent |-> d.agent, severity |-> d.severity, todo |-> rest,
                    tried |-> d.tried]
             f2 == [f1 EXCEPT ![n].tried = f1[n].tried \cup {ch}]
             c2 == [pc |-> d.pc, agent |-> d.agent, severity |-> d.severity, todo |-> rest,
                    tried |-> tried]
             f3 == [f2 EXCEPT ![n].pc = IF rest = <<>> THEN "done" ELSE f2[n].pc]
  <2>1. notifier' = f3 /\ UNCHANGED <<recent, passed>>
    BY DEF SendNext
  <2> HIDE DEF rest, ch
  <2>2. f1 = [notifier EXCEPT ![n] = c1] /\ f1[n] = c1 /\ DOMAIN f1 = Notifiers
    <3>1. [d EXCEPT !.todo = rest] = c1
      BY <1>2
    <3> QED
      BY <1>1, <3>1
  <2> HIDE DEF f1
  <2>3. f2 = [f1 EXCEPT ![n] = c2] /\ f2[n] = c2 /\ DOMAIN f2 = Notifiers
    <3>1. c1.tried \cup {ch} = tried
      OBVIOUS
    <3>2. [c1 EXCEPT !.tried = tried] = c2
      OBVIOUS
    <3> QED
      BY <2>2, <3>1, <3>2
  <2> HIDE DEF f2
  <2>4. f3 = [f2 EXCEPT ![n] = c]
    <3>1. c2.pc = d.pc
      OBVIOUS
    <3>2. \A x : [c2 EXCEPT !.pc = x] = [pc |-> x, agent |-> d.agent, severity |-> d.severity,
                                         todo |-> rest, tried |-> tried]
      OBVIOUS
    <3> QED
      BY <2>3, <3>1, <3>2
  <2> HIDE DEF f3, c, c1, c2
  <2>5. [f2 EXCEPT ![n] = c] = [notifier EXCEPT ![n] = c]
    BY <1>1, <2>2, <2>3
  <2> QED
    BY <2>1, <2>4, <2>5
<1> HIDE DEF rest, ch, d
<1>5. Deliverable(c)
  <2>1. CASE rest = <<>>
    <3>1. d.tried \cup {ch} = Range(Channels)
      BY <1>2, <1>3, <2>1, ListedChannels
    <3> QED
      BY <1>2, <1>3, <2>1, <3>1 DEF Deliverable
  <2>2. CASE rest # <<>>
    BY <1>1, <1>2, <1>3, <2>2 DEF Deliverable
  <2> QED
    BY <2>1, <2>2
<1> HIDE DEF c
<1> QED
  BY <1>4, <1>5, NotifierStep, LimiterKept, NotifyHalves

\* Allow counts what was let through in the last hour, in the critical section
\* in which it records the next one.
LEMMA AllowKeeps ==
    ASSUME NotifyInv, NEW n \in Notifiers, Allow(n)
    PROVE  NotifyInv'
<1> DEFINE d == notifier[n]
           a == d.agent
           young == Young(recent[a])
           ok == Len(young) < MaxPerHour
           pc == IF ok THEN "sending" ELSE "limited"
           c == [pc |-> pc, agent |-> a, severity |-> d.severity, todo |-> d.todo,
                 tried |-> d.tried]
<1>1. Deliverable(d) /\ d.pc = "routed" /\ DOMAIN notifier = Notifiers /\ LimiterSound
  BY NotifyHalves DEF Allow
<1>2. /\ d = [pc |-> d.pc, agent |-> a, severity |-> d.severity, todo |-> d.todo,
              tried |-> d.tried]
      /\ a \in NotifyAgents /\ d.severity \in Severities
      /\ d.todo \in Seq(Range(Channels)) /\ d.tried \subseteq Range(Channels)
      /\ d.todo # <<>> /\ Range(d.todo) \cup d.tried = Range(Channels)
  BY <1>1 DEF Deliverable
<1>3. notifier' = [notifier EXCEPT ![n] = c]
  <2>1. [d EXCEPT !.pc = pc] = c
    BY <1>2
  <2>2. notifier' = [notifier EXCEPT ![n] = [d EXCEPT !.pc = pc]]
    BY DEF Allow
  <2> QED
    BY <2>1, <2>2
<1>4. Deliverable(c)
  <2>1. CASE ok
    BY <1>2, <2>1 DEF Deliverable
  <2>2. CASE ~ok
    BY <1>2, <2>2 DEF Deliverable
  <2> QED
    BY <2>1, <2>2
<1>5. LimiterSound'
  <2>1. CASE ~ok
    <3>1. UNCHANGED <<recent, passed>>
      BY <2>1 DEF Allow
    <3> QED
      BY <1>1, <3>1, LimiterKept
  <2>2. CASE ok
    <3>1. /\ recent' = [recent EXCEPT ![a] = Append(young, 0)]
          /\ passed' = [passed EXCEPT ![a] = Append(passed[a], 0)]
      BY <2>2 DEF Allow
    <3>2. /\ recent \in [NotifyAgents -> Seq(0 .. Hour + 1)]
          /\ passed \in [NotifyAgents -> Seq(0 .. Hour)]
          /\ recent[a] \in Seq(0 .. Hour + 1) /\ passed[a] \in Seq(0 .. Hour)
          /\ Hour \in Nat /\ MaxPerHour \in Nat
      BY <1>1, <1>2, NotifyConstants DEF LimiterSound
    <3>3. /\ young \in Seq(0 .. Hour) /\ Len(young) = CountIn(recent[a], 0 .. Hour)
          /\ \A k \in 0 .. Hour : CountIn(young, 0 .. k) = CountIn(recent[a], 0 .. k)
      BY <3>2, YoungEntries
    <3>4. \A k \in 0 .. Hour : CountIn(recent[a], 0 .. k) = CountIn(passed[a], 0 .. k)
      BY <1>1, <1>2 DEF LimiterSound
    <3>5. Len(young) = Len(passed[a])
      <4>1. CountIn(passed[a], 0 .. Hour) = Len(passed[a])
        BY <3>2, CountAll
      <4>2. Hour \in 0 .. Hour
        BY <3>2
      <4> QED
        BY <3>3, <3>4, <4>1, <4>2
    <3> HIDE DEF young, a, d
    <3> DEFINE A == 0 .. Hour
    <3>6. 0 \in A /\ young \in Seq(A) /\ passed[a] \in Seq(A)
      BY <3>2, <3>3
    <3>7. ASSUME NEW k \in 0 .. Hour
          PROVE  CountIn(Append(young, 0), 0 .. k) = CountIn(Append(passed[a], 0), 0 .. k)
      <4> HIDE DEF A
      <4>1. \A Q : /\ CountIn(Append(young, 0), Q) = CountIn(young, Q) + (IF 0 \in Q THEN 1 ELSE 0)
                   /\ CountIn(Append(passed[a], 0), Q)
                        = CountIn(passed[a], Q) + (IF 0 \in Q THEN 1 ELSE 0)
        BY <3>6, CountAppend
      <4> QED
        BY <3>3, <3>4, <4>1
    <3>8. /\ Append(young, 0) \in Seq(0 .. Hour) /\ Append(passed[a], 0) \in Seq(0 .. Hour)
          /\ Len(Append(passed[a], 0)) = Len(passed[a]) + 1 /\ Len(passed[a]) \in Nat
      <4> HIDE DEF A
      <4>1. /\ Append(young, 0) \in Seq(A) /\ Append(passed[a], 0) \in Seq(A)
            /\ Len(Append(passed[a], 0)) = Len(passed[a]) + 1 /\ Len(passed[a]) \in Nat
        BY <3>6
      <4> QED
        BY <4>1 DEF A
    <3>9. Append(young, 0) \in Seq(0 .. Hour + 1)
      BY <3>8, CountAll
    <3>10. /\ recent' \in [NotifyAgents -> Seq(0 .. Hour + 1)]
           /\ passed' \in [NotifyAgents -> Seq(0 .. Hour)]
      BY <3>1, <3>2, <3>8, <3>9
    <3>11. \A b \in NotifyAgents :
             /\ recent'[b] = IF b = a THEN Append(young, 0) ELSE recent[b]
             /\ passed'[b] = IF b = a THEN Append(passed[a], 0) ELSE passed[b]
      BY <3>1, <3>2
    <3>12. ASSUME NEW b \in NotifyAgents, NEW k \in 0 .. Hour
           PROVE  CountIn(recent'[b], 0 .. k) = CountIn(passed'[b], 0 .. k)
      <4>1. CASE b = a
        BY <3>7, <3>11, <4>1
      <4>2. CASE b # a
        BY <1>1, <3>11, <4>2 DEF LimiterSound
      <4> QED
        BY <4>1, <4>2
    <3>13. ASSUME NEW b \in NotifyAgents PROVE Len(passed'[b]) <= MaxPerHour
      <4>1. CASE b = a
        <5>1. passed'[b] = Append(passed[a], 0)
          BY <3>11, <4>1
        <5>2. Len(passed[a]) < MaxPerHour /\ MaxPerHour \in Nat
          BY <2>2, <3>2, <3>5
        <5>3. Len(Append(passed[a], 0)) <= MaxPerHour
          BY <3>8, <5>2
        <5> QED
          BY <5>1, <5>3
      <4>2. CASE b # a
        BY <1>1, <3>11, <4>2 DEF LimiterSound, NotificationsLimited
      <4> QED
        BY <4>1, <4>2
    <3> QED
      BY <3>10, <3>12, <3>13 DEF LimiterSound, NotificationsLimited
  <2> QED
    BY <2>1, <2>2
<1> HIDE DEF c
<1> QED
  BY <1>3, <1>4, <1>5, NotifierStep

\* Time moves both the same way.
LEMMA NotifyTickKeeps ==
    ASSUME NotifyInv, NotifyTick
    PROVE  NotifyInv'
<1>1. /\ LimiterSound /\ UNCHANGED notifier /\ Hour \in Nat /\ MaxPerHour \in Nat
      /\ recent' = [a \in NotifyAgents |-> Older(recent[a])]
      /\ passed' = [a \in NotifyAgents |-> Young(Older(passed[a]))]
  BY NotifyHalves, NotifyConstants DEF NotifyTick
<1>2. ASSUME NEW a \in NotifyAgents
      PROVE  /\ Older(recent[a]) \in Seq(0 .. Hour + 1) /\ Young(Older(passed[a])) \in Seq(0 .. Hour)
             /\ \A k \in 0 .. Hour : CountIn(Older(recent[a]), 0 .. k)
                                       = CountIn(Young(Older(passed[a])), 0 .. k)
             /\ Len(Young(Older(passed[a]))) <= MaxPerHour
  <2>1. /\ recent[a] \in Seq(0 .. Hour + 1) /\ passed[a] \in Seq(0 .. Hour)
        /\ Len(passed[a]) <= MaxPerHour
        /\ \A k \in 0 .. Hour : CountIn(recent[a], 0 .. k) = CountIn(passed[a], 0 .. k)
    BY <1>1 DEF LimiterSound, NotificationsLimited
  <2>2. passed[a] \in Seq(0 .. Hour + 1) /\ Len(passed[a]) \in Nat
    BY <2>1, CountAll, Elements
  <2>3. /\ Older(recent[a]) \in Seq(0 .. Hour + 1) /\ Older(passed[a]) \in Seq(0 .. Hour + 1)
        /\ CountIn(Older(recent[a]), 0 .. 0) = 0 /\ CountIn(Older(passed[a]), 0 .. 0) = 0
        /\ \A k \in 1 .. Hour :
             /\ CountIn(Older(recent[a]), 0 .. k) = CountIn(recent[a], 0 .. (k - 1))
             /\ CountIn(Older(passed[a]), 0 .. k) = CountIn(passed[a], 0 .. (k - 1))
    BY <2>1, <2>2, OlderEntries
  <2>4. ASSUME NEW k \in 0 .. Hour
        PROVE  CountIn(Older(recent[a]), 0 .. k) = CountIn(Older(passed[a]), 0 .. k)
    <3>1. CASE k = 0
      BY <2>3, <3>1
    <3>2. CASE k # 0
      <4>1. k \in 1 .. Hour /\ k - 1 \in 0 .. Hour
        BY <1>1, <3>2
      <4> QED
        BY <2>1, <2>3, <4>1
    <3> QED
      BY <3>1, <3>2
  <2>5. /\ Young(Older(passed[a])) \in Seq(0 .. Hour)
        /\ \A k \in 0 .. Hour :
             CountIn(Young(Older(passed[a])), 0 .. k) = CountIn(Older(passed[a]), 0 .. k)
        /\ Len(Young(Older(passed[a]))) = CountIn(Older(passed[a]), 0 .. Hour)
    BY <2>3, YoungEntries
  <2>6. CountIn(Older(passed[a]), 0 .. Hour) <= MaxPerHour
    <3> DEFINE aged == Older(passed[a])
               S == 0 .. Hour + 1
    <3>1. aged \in Seq(S) /\ Len(aged) = Len(passed[a])
      <4>1. Len(passed[a]) \in Nat /\ DOMAIN aged = DOMAIN passed[a] /\ DOMAIN passed[a] = 1 .. Len(passed[a])
        BY <2>2, Elements DEF Older
      <4>2. aged \in Seq(S) /\ DOMAIN aged = 1 .. Len(aged) /\ Len(aged) \in Nat
        BY <2>3, Elements
      <4> QED
        BY <4>1, <4>2
    <3>2. 0 \in S
      BY <1>1
    <3> HIDE DEF aged, S
    <3>3. CountIn(aged, 0 .. Hour) \in 0 .. Len(aged)
      BY <3>1, <3>2, CountAppend
    <3>4. CountIn(aged, 0 .. Hour) <= MaxPerHour
      BY <1>1, <2>1, <2>2, <3>1, <3>3
    <3> QED
      BY <3>4 DEF aged
  <2> QED
    BY <2>3, <2>4, <2>5, <2>6
<1>3. LimiterSound'
  BY <1>1, <1>2 DEF LimiterSound, NotificationsLimited
<1> QED
  BY <1>1, <1>3
     DEF NotifyInv, NotifyTypeOK, AllWithinLimit, EveryChannelTried, LimiterSound,
         NotificationsLimited

\* Every step keeps the invariant.
LEMMA NotifyInvStep ==
    ASSUME NotifyInv, [NotifyNext]_notifyVars
    PROVE  NotifyInv'
<1>1. CASE UNCHANGED notifyVars
  BY <1>1 DEF notifyVars, NotifyInv, NotifyTypeOK, AllWithinLimit, EveryChannelTried,
              NotificationsLimited
<1> QED
  BY <1>1, NotifyFuncKeeps, AllowKeeps, SendNextKeeps, NotifyTickKeeps DEF NotifyNext

\* The invariant holds in every reachable state.
THEOREM NotifyInvariant == NotifySpec => []NotifyInv
  BY NotifyInvInit, NotifyInvStep, PTL DEF NotifySpec

\* However many runs end at once, an agent gets at most MaxPerHour notifications
\* through in an hour, and each of these is tried on every channel, for every
\* list of channels, every limit and every length of the hour.
THEOREM NotificationsAreLimited == NotifySpec => []AllWithinLimit
<1>1. NotifyInv => AllWithinLimit
  BY DEF NotifyInv
<1> QED
  BY <1>1, NotifyInvariant, PTL

=============================================================================
