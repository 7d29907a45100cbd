---------------------------- MODULE RunAdmission ----------------------------
(***************************************************************************)
(* How the operator admits agent runs: one scheduling goroutine, the       *)
(* RunTracker and the rate Limiter it consults, the webhook trigger        *)
(* channel it drains, and the goroutine of every run it starts.            *)
(*                                                                         *)
(*   src/internal/scheduler/scheduler.go    the loop and the run goroutine *)
(*   src/internal/scheduler/concurrency.go  inflight                       *)
(*   src/internal/ratelimit/ratelimit.go    concurrent, totalConc, history *)
(*                                                                         *)
(* Every lock section of the code is a step of its own, so the completion  *)
(* of a run interleaves with the sequence Allow, TryStart, RecordStart.    *)
(* What the loop reads from a LegatorAgent (paused, due) is an input here; *)
(* module Scheduler adds the objects those values are read from.           *)
(*                                                                         *)
(* The code compares a recorded instant only with now - maxAge or          *)
(* now - 1h, so the model stores the age of an instant, which Advance      *)
(* increments and which saturates once every comparison is settled.        *)
(***************************************************************************)
EXTENDS Integers, Sequences, FiniteSets

CONSTANTS
    Agents,                 \* LegatorAgent keys (namespace/name)
    RunIds,                 \* bound: run goroutines alive at one moment
    MaxConcurrentRuns,      \* Scheduler.maxConcurrentRuns
    MaxConcurrentPerAgent,  \* ratelimit.Config
    MaxConcurrentCluster,
    MaxRunsPerHourPerAgent,
    MaxRunsPerHourCluster,
    BurstAllowance,
    Hour,                   \* length of the limiter's window
    StaleAge,               \* the 30 minutes tick passes to CleanStale
    TriggerCap,             \* capacity of the webhook trigger channel
    None

ASSUME AdmissionConstants ==
    /\ IsFiniteSet(RunIds)
    /\ MaxConcurrentRuns \in Nat
    /\ MaxConcurrentPerAgent \in Nat
    /\ MaxConcurrentCluster \in Nat
    /\ MaxRunsPerHourPerAgent \in Nat
    /\ MaxRunsPerHourCluster \in Nat
    /\ BurstAllowance \in Nat
    /\ Hour \in Nat
    /\ StaleAge \in Nat
    /\ TriggerCap \in Nat
    /\ None \notin Agents /\ None \notin Nat

VARIABLES
    inflight,   \* RunTracker.inflight: agent -> age of the entry, or None
    concurrent, \* Limiter.concurrent
    totalConc,  \* Limiter.totalConc
    history,    \* Limiter.history: agent and age of each recorded start
    triggers,   \* the webhook trigger channel
    sched,      \* where the scheduling goroutine is, and for which agent
    todo,       \* the listed agents the current tick has not evaluated yet
    runs,       \* the run goroutines
    recent      \* history variable, read by no action: the starts of the
                \* last hour, oldest first

limiterVars == <<concurrent, totalConc, history, recent>>
admissionVars == <<inflight, concurrent, totalConc, history, triggers, sched,
                   todo, runs, recent>>

StartRecord == [agentKey : Agents, age : 0..(Hour + 1)]

TriggerPC == {"allow", "tryStart", "recordStart", "config"}
Sched == [pc : {"select", "loop"}, agent : {None}, trigger : {None}]
           \cup [pc : TriggerPC, agent : Agents,
                 trigger : {"scheduled", "webhook"}]
AtSelect == [pc |-> "select", agent |-> None, trigger |-> None]
AtLoop   == [pc |-> "loop", agent |-> None, trigger |-> None]

\* executing: Execute and updateAgentAfterRun; complete: the limiter has
\* been told, the tracker not yet.
Run == [pc : {"executing", "complete"}, agent : Agents]
FreeRun == [pc |-> "free", agent |-> None]

AdmissionTypeOK ==
    /\ inflight \in [Agents -> (0..(StaleAge + 1)) \cup {None}]
    /\ concurrent \in [Agents -> Nat]
    /\ totalConc \in Nat
    /\ history \in Seq(StartRecord)
    /\ recent \in Seq(StartRecord)
    /\ triggers \in Seq(Agents)
    /\ sched \in Sched
    /\ todo \in SUBSET Agents
    /\ runs \in [RunIds -> Run \cup {FreeRun}]

-----------------------------------------------------------------------------
(* RunTracker.                                                             *)

IsRunning(a) == inflight[a] # None

InFlightCount == Cardinality({a \in Agents : inflight[a] # None})

\* CleanStale drops every entry older than maxAge, whether or not the run
\* it stands for is still executing.
CleanStale(maxAge) ==
    inflight' = [a \in Agents |->
                   IF inflight[a] # None /\ inflight[a] > maxAge
                   THEN None ELSE inflight[a]]

\* Complete deletes the agent's entry, whichever run put it there.
Complete(a) == inflight' = [inflight EXCEPT ![a] = None]

-----------------------------------------------------------------------------
(* Limiter.                                                                *)

\* Mutant: the window ends one unit early.
InShorterWindow(rec) == rec.age < Hour

InWindow(rec) == rec.age <= Hour

\* pruneHistory drops the longest prefix that lies before the window.
PrunedHistory ==
    LET dropped == {i \in DOMAIN history :
                      \A j \in 1..i : ~InWindow(history[j])}
    IN  SubSeq(history, Cardinality(dropped) + 1, Len(history))

CountAgent(hist, a) ==
    Cardinality({i \in DOMAIN hist : hist[i].agentKey = a /\ InWindow(hist[i])})

\* Mutant: the limits on concurrent runs are off by one.
AllowOneMore(a, isWebhook) ==
    LET burst == IF isWebhook THEN BurstAllowance ELSE 0 IN
    /\ concurrent[a] <= MaxConcurrentPerAgent
    /\ totalConc <= MaxConcurrentCluster + burst
    /\ CountAgent(PrunedHistory, a) < MaxRunsPerHourPerAgent
    /\ Len(PrunedHistory) < MaxRunsPerHourCluster + burst * 10

\* The four limits of Allow(agentKey, isWebhook).
Allow(a, isWebhook) ==
    LET burst == IF isWebhook THEN BurstAllowance ELSE 0 IN
    /\ concurrent[a] < MaxConcurrentPerAgent
    /\ totalConc < MaxConcurrentCluster + burst
    /\ CountAgent(PrunedHistory, a) < MaxRunsPerHourPerAgent
    /\ Len(PrunedHistory) < MaxRunsPerHourCluster + burst * 10

RecordStart(a) ==
    /\ concurrent' = [concurrent EXCEPT ![a] = @ + 1]
    /\ totalConc' = totalConc + 1
    /\ history' = Append(history, [agentKey |-> a, age |-> 0])
    /\ recent' = Append(recent, [agentKey |-> a, age |-> 0])

\* Mutant: the cluster's counter is not decremented.
RecordCompletePerAgent(a) ==
    /\ concurrent' = [concurrent EXCEPT ![a] = IF @ > 0 THEN @ - 1 ELSE @]
    /\ UNCHANGED <<totalConc, history, recent>>

RecordComplete(a) ==
    /\ concurrent' = [concurrent EXCEPT ![a] = IF @ > 0 THEN @ - 1 ELSE @]
    /\ totalConc' = IF totalConc > 0 THEN totalConc - 1 ELSE totalConc
    /\ UNCHANGED <<history, recent>>

-----------------------------------------------------------------------------
(* The scheduling goroutine: Start's select, tick, evaluateAgent,          *)
(* handleWebhookTrigger, triggerRun.                                       *)

GoTo(pc) ==
    sched' = [pc |-> pc, agent |-> sched.agent, trigger |-> sched.trigger]

\* Where triggerRun returns to: the tick it was called from, or the select.
Return == sched' = IF sched.trigger = "scheduled" THEN AtLoop ELSE AtSelect

\* tick: CleanStale, then List, which fails or returns the agents.
TickList(listed) ==
    /\ sched.pc = "select"
    /\ CleanStale(StaleAge)
    /\ todo' = listed
    /\ sched' = AtLoop
    /\ UNCHANGED <<limiterVars, triggers, runs>>

TickListFails ==
    /\ sched.pc = "select"
    /\ CleanStale(StaleAge)
    /\ UNCHANGED <<limiterVars, triggers, sched, todo, runs>>

TickDone ==
    /\ sched.pc = "loop"
    /\ todo = {}
    /\ sched' = AtSelect
    /\ UNCHANGED <<inflight, limiterVars, triggers, todo, runs>>

\* evaluateAgent returns without triggering: the agent is paused or has no
\* schedule, is in flight, the tracker is full, or it is not due.
EvaluateSkip(a) ==
    /\ sched.pc = "loop"
    /\ a \in todo
    /\ todo' = todo \ {a}
    /\ UNCHANGED <<inflight, limiterVars, triggers, sched, runs>>

\* evaluateAgent triggers a run of an agent that is due.
EvaluateDue(a) ==
    /\ sched.pc = "loop"
    /\ a \in todo
    /\ ~IsRunning(a)
    /\ InFlightCount < MaxConcurrentRuns
    /\ todo' = todo \ {a}
    /\ sched' = [pc |-> "allow", agent |-> a, trigger |-> "scheduled"]
    /\ UNCHANGED <<inflight, limiterVars, triggers, runs>>

\* handleWebhookTrigger: the agent is gone or paused and the trigger is
\* dropped, or it goes on to triggerRun. Neither the tracker's limit nor
\* IsRunning is looked at first.
WebhookDrop ==
    /\ sched.pc = "select"
    /\ triggers # <<>>
    /\ triggers' = Tail(triggers)
    /\ UNCHANGED <<inflight, limiterVars, sched, todo, runs>>

WebhookTrigger ==
    /\ sched.pc = "select"
    /\ triggers # <<>>
    /\ triggers' = Tail(triggers)
    /\ sched' = [pc |-> "allow", agent |-> Head(triggers), trigger |-> "webhook"]
    /\ UNCHANGED <<inflight, limiterVars, todo, runs>>

\* triggerRun, the Limiter: Allow prunes the history either way.
TriggerAllow ==
    /\ sched.pc = "allow"
    /\ history' = PrunedHistory
    /\ IF Allow(sched.agent, sched.trigger = "webhook")
       THEN GoTo("tryStart") ELSE Return
    /\ UNCHANGED <<inflight, concurrent, totalConc, recent, triggers, todo, runs>>

\* triggerRun, the RunTracker: TryStart.
TriggerTryStart ==
    /\ sched.pc = "tryStart"
    /\ IF IsRunning(sched.agent)
       THEN Return /\ UNCHANGED inflight
       ELSE /\ inflight' = [inflight EXCEPT ![sched.agent] = 0]
            /\ GoTo("recordStart")
    /\ UNCHANGED <<limiterVars, triggers, todo, runs>>

TriggerRecordStart ==
    /\ sched.pc = "recordStart"
    /\ RecordStart(sched.agent)
    /\ GoTo("config")
    /\ UNCHANGED <<inflight, triggers, todo, runs>>

\* RunConfigFactory fails: the slot is given back; the history keeps the
\* start. The two lock sections are one step, as only this goroutine reads
\* the tracker and the limiter.
TriggerConfigFails ==
    /\ sched.pc = "config"
    /\ Complete(sched.agent)
    /\ RecordComplete(sched.agent)
    /\ Return
    /\ UNCHANGED <<triggers, todo, runs>>

TriggerSpawn(r) ==
    /\ sched.pc = "config"
    /\ runs[r] = FreeRun
    /\ runs' = [runs EXCEPT ![r] = [pc |-> "executing", agent |-> sched.agent]]
    /\ Return
    /\ UNCHANGED <<inflight, limiterVars, triggers, todo>>

-----------------------------------------------------------------------------
(* The end of a run goroutine: its deferred calls, last one first.         *)

RunRecordComplete(r) ==
    /\ runs[r].pc = "executing"
    /\ RecordComplete(runs[r].agent)
    /\ runs' = [runs EXCEPT ![r] = [pc |-> "complete", agent |-> @.agent]]
    /\ UNCHANGED <<inflight, triggers, sched, todo>>

RunComplete(r) ==
    /\ runs[r].pc = "complete"
    /\ Complete(runs[r].agent)
    /\ runs' = [runs EXCEPT ![r] = FreeRun]
    /\ UNCHANGED <<limiterVars, triggers, sched, todo>>

-----------------------------------------------------------------------------
(* The environment: webhook deliveries, the clock, process restarts.       *)

\* ServeHTTP's non-blocking send of a debounced delivery.
WebhookSend(a) ==
    /\ Len(triggers) < TriggerCap
    /\ triggers' = Append(triggers, a)
    /\ UNCHANGED <<inflight, limiterVars, sched, todo, runs>>

Older(starts) ==
    [i \in DOMAIN starts |->
       [agentKey |-> starts[i].agentKey,
        age |-> IF starts[i].age > Hour THEN starts[i].age ELSE starts[i].age + 1]]

\* Of starts in their order, those of the last hour.
LastHour(starts) ==
    SubSeq(starts, Cardinality({i \in DOMAIN starts : starts[i].age > Hour}) + 1,
           Len(starts))

Advance ==
    /\ inflight' = [a \in Agents |->
                      IF inflight[a] = None \/ inflight[a] = StaleAge + 1
                      THEN inflight[a] ELSE inflight[a] + 1]
    /\ history' = Older(history)
    /\ recent' = LastHour(Older(recent))
    /\ UNCHANGED <<concurrent, totalConc, triggers, sched, todo, runs>>

\* The process dies and starts again; all of this state was in memory.
Restart ==
    /\ inflight' = [a \in Agents |-> None]
    /\ concurrent' = [a \in Agents |-> 0]
    /\ totalConc' = 0
    /\ history' = <<>>
    /\ recent' = <<>>
    /\ triggers' = <<>>
    /\ sched' = AtSelect
    /\ todo' = {}
    /\ runs' = [r \in RunIds |-> FreeRun]

AdmissionInit ==
    /\ inflight = [a \in Agents |-> None]
    /\ concurrent = [a \in Agents |-> 0]
    /\ totalConc = 0
    /\ history = <<>>
    /\ recent = <<>>
    /\ triggers = <<>>
    /\ sched = AtSelect
    /\ todo = {}
    /\ runs = [r \in RunIds |-> FreeRun]

TakeTrigger == WebhookDrop \/ WebhookTrigger

SchedulerStep ==
    \/ TickListFails \/ TickDone \/ TakeTrigger
    \/ \E listed \in SUBSET Agents : TickList(listed)
    \/ \E a \in Agents : EvaluateSkip(a) \/ EvaluateDue(a)
    \/ TriggerAllow \/ TriggerTryStart \/ TriggerRecordStart
    \/ TriggerConfigFails
    \/ \E r \in RunIds : TriggerSpawn(r)

RunStep(r) == RunRecordComplete(r) \/ RunComplete(r)

Environment == Advance \/ Restart \/ \E a \in Agents : WebhookSend(a)

AdmissionNext == SchedulerStep \/ (\E r \in RunIds : RunStep(r)) \/ Environment

AdmissionSpec == AdmissionInit /\ [][AdmissionNext]_admissionVars

-----------------------------------------------------------------------------
(* Properties.                                                             *)

\* The runs, of agent a or of any, that hold a limiter slot.
Holding(a) == {r \in RunIds : runs[r].pc = "executing" /\ runs[r].agent = a}
AllHolding == {r \in RunIds : runs[r].pc = "executing"}

\* How many of the starts are of agent a.
StartsOf(starts, a) == Cardinality({i \in DOMAIN starts : starts[i].agentKey = a})

\* 1 between RecordStart and the spawn of the run goroutine.
Starting(a) == IF sched.pc = "config" /\ sched.agent = a THEN 1 ELSE 0
AnyStarting == IF sched.pc = "config" THEN 1 ELSE 0

\* RecordStart and RecordComplete pair up on every path (run, failed
\* config, restart): the limiter's per-agent and cluster counters are
\* exactly the runs that hold a slot, so no slot leaks and none is freed
\* twice, whatever CleanStale does to the tracker meanwhile.
LimiterExact ==
    /\ \A a \in Agents : concurrent[a] = Cardinality(Holding(a)) + Starting(a)
    /\ totalConc = Cardinality(AllHolding) + AnyStarting

\* An entry of the RunTracker always has someone who will delete it: a run
\* of that agent that has not completed, or the scheduling goroutine on its
\* way to start one. Otherwise the agent would be refused until CleanStale.
NoOrphanEntry ==
    \A a \in Agents : inflight[a] # None =>
        \/ \E r \in RunIds : runs[r].agent = a
        \/ sched.agent = a /\ sched.pc \in {"recordStart", "config"}

\* Runs started by the scheduler never exceed MaxConcurrentPerAgent for an
\* agent nor MaxConcurrentCluster + BurstAllowance in all, although Allow
\* and RecordStart are separate lock sections and CleanStale forgets
\* runs that are still executing.
ConcurrencyBounded ==
    /\ \A a \in Agents : Cardinality(Holding(a)) <= MaxConcurrentPerAgent
    /\ Cardinality(AllHolding) <= MaxConcurrentCluster + BurstAllowance

\* A passed Allow stays true until the start is recorded: only the one
\* scheduling goroutine takes slots, other goroutines only free them.
SlotReserved ==
    sched.pc \in {"tryStart", "recordStart"} =>
        /\ concurrent[sched.agent] < MaxConcurrentPerAgent
        /\ totalConc < MaxConcurrentCluster
                         + (IF sched.trigger = "webhook" THEN BurstAllowance ELSE 0)

\* In every window of one hour that ends now, an agent was started at most
\* MaxRunsPerHourPerAgent times and all agents together at most
\* MaxRunsPerHourCluster plus ten times the burst, although Allow works on
\* a pruned history and the start is recorded in a later step.
HourlyRateBounded ==
    /\ \A a \in Agents : StartsOf(recent, a) <= MaxRunsPerHourPerAgent
    /\ Len(recent) <= MaxRunsPerHourCluster + BurstAllowance * 10

\* So does what Allow saw of the last hour: its starts only get older.
RateReserved ==
    sched.pc \in {"tryStart", "recordStart"} =>
        /\ StartsOf(recent, sched.agent) < MaxRunsPerHourPerAgent
        /\ Len(recent) < MaxRunsPerHourCluster
                           + (IF sched.trigger = "webhook" THEN BurstAllowance ELSE 0) * 10

\* The history is in the order of the starts, and without its old entries it
\* is the starts of the last hour: pruneHistory never drops one of these.
HistoryExact ==
    /\ \A i, j \in DOMAIN history : i <= j => history[i].age >= history[j].age
    /\ recent = LastHour(history)

\* The inductive invariant behind the bounds: the counters and the history
\* are exact, they respect the limits, and an admitted trigger still has its
\* slot.
AdmissionInv ==
    /\ AdmissionTypeOK
    /\ LimiterExact
    /\ SlotReserved
    /\ \A a \in Agents : concurrent[a] <= MaxConcurrentPerAgent
    /\ totalConc <= MaxConcurrentCluster + BurstAllowance
    /\ NoOrphanEntry
    /\ HistoryExact /\ RateReserved /\ HourlyRateBounded

\* Scheduled runs do not use the webhook burst: a start is recorded for a
\* scheduled trigger only while fewer than MaxConcurrentCluster hold a slot.
ScheduledWithinCluster ==
    [][sched.trigger = "scheduled" /\ totalConc' > totalConc
         => Cardinality(AllHolding) < MaxConcurrentCluster]_admissionVars

\* The scheduling goroutine drains a full trigger channel.
FullChannelDrains == Len(triggers) = TriggerCap ~> Len(triggers) < TriggerCap

=============================================================================
