----------------------------- MODULE Scheduler -----------------------------
(***************************************************************************)
(* RunAdmission together with the LegatorAgent objects it is driven by:    *)
(* what the scheduling goroutine reads of an agent and writes to its       *)
(* status, the status update at the end of every run, and the agent        *)
(* reconciler, which starts a manual run when the run-now annotation is    *)
(* set.                                                                    *)
(*                                                                         *)
(*   src/internal/scheduler/scheduler.go   evaluateAgent, updateNextRunTime,*)
(*                                         updateAgentAfterRun             *)
(*   src/internal/scheduler/schedule.go    IsDue                           *)
(*   src/internal/controller/legatoragent_controller.go   Reconcile        *)
(*                                                                         *)
(* Reads go through the manager's cache, which lags the API server; writes *)
(* carry the resourceVersion that was read and are refused when another    *)
(* write came first. A resourceVersion is only compared for equality with  *)
(* the stored one, so a copy of an object carries a flag, current, that    *)
(* every other write of the object clears.                                 *)
(***************************************************************************)
EXTENDS RunAdmission

CONSTANTS
    Scheduled,    \* the agents with a cron or interval schedule
    Unparsable,   \* those whose schedule or timezone does not parse
    Interval,     \* time from one run of a scheduled agent to the next
    MaxWrites,    \* bound: writes of the agents by users and other clients
    MaxManual     \* bound: manual runs of an agent alive at one moment

ASSUME SchedulerConstants ==
    /\ Scheduled \subseteq Agents /\ Unparsable \subseteq Scheduled
    /\ Interval \in Nat /\ MaxWrites \in Nat /\ MaxManual \in Nat

VARIABLES
    store,      \* the LegatorAgent objects in the API server
    cache,      \* the manager's cached copies of them
    listed,     \* the copy of each agent in todo that List returned
    status,     \* how far a run's updateAgentAfterRun is
    reconcile,  \* how far the agent's Reconcile is
    manual,     \* manual runs of the agent that are executing
    writes      \* how many of the MaxWrites were made

objectVars == <<store, cache, listed>>
manualVars == <<reconcile, manual>>
schedulerVars == <<objectVars, status, manualVars, writes>>
vars == <<admissionVars, schedulerVars>>

Age == 0..(Interval + 1)
Object == [paused : BOOLEAN, runNow : BOOLEAN, lastRun : Age \cup {None}]
Copy   == [obj : Object, current : BOOLEAN]
NoCopy == [obj |-> None, current |-> FALSE]
StatusRec == [pc : {"idle", "refetch", "update", "done"}, stamp : Age, current : BOOLEAN]
ReconcileRec == [pc : {"idle", "annotation", "status"}, copy : Copy \cup {NoCopy}]

TypeOK ==
    /\ AdmissionTypeOK
    /\ store \in [Agents -> Object]
    /\ cache \in [Agents -> Copy]
    /\ listed \in [Agents -> Copy \cup {NoCopy}]
    /\ status \in [RunIds -> StatusRec]
    /\ reconcile \in [Agents -> ReconcileRec]
    /\ manual \in [Agents -> 0..MaxManual]
    /\ writes \in 0..MaxWrites

-----------------------------------------------------------------------------
(* The API server (external): objects, copies, optimistic concurrency.     *)

Fetched(a) == [obj |-> store[a], current |-> TRUE]

Outdated(copies, a) == [copies EXCEPT ![a].current = FALSE]

StatusIdle == [pc |-> "idle", stamp |-> 0, current |-> FALSE]
StatusDone == [pc |-> "done", stamp |-> 0, current |-> FALSE]
ReconcileIdle == [pc |-> "idle", copy |-> NoCopy]

OutdatedStatus(st, a) ==
    [r \in RunIds |->
       IF runs[r].agent = a THEN [st[r] EXCEPT !.current = FALSE] ELSE st[r]]

OutdatedReconcile(rec, a) == [rec EXCEPT ![a].copy.current = FALSE]

-----------------------------------------------------------------------------
(* The scheduling goroutine.                                               *)

\* Mutant: an agent that never ran is not due.
IsDueAfterRun(a, obj) ==
    obj.lastRun # None /\ a \notin Unparsable /\ obj.lastRun > Interval

\* IsDue: an agent that never ran is due before its schedule is parsed.
IsDue(a, obj) ==
    obj.lastRun # None => a \notin Unparsable /\ obj.lastRun > Interval

\* The conditions under which evaluateAgent goes on to the schedule.
Evaluable(a) ==
    /\ ~listed[a].obj.paused
    /\ a \in Scheduled
    /\ ~IsRunning(a)
    /\ InFlightCount < MaxConcurrentRuns

Evaluated(a) == listed' = [listed EXCEPT ![a] = NoCopy]

Tick ==
    \/ /\ TickList(Agents)
       /\ listed' = cache
       /\ UNCHANGED <<store, cache, status, manualVars, writes>>
    \/ (TickListFails \/ TickDone) /\ UNCHANGED schedulerVars

\* evaluateAgent returns early; or the agent is not due and
\* updateNextRunTime computes no new time, or loses its update.
EvaluateAgentSkip(a) ==
    /\ EvaluateSkip(a)
    /\ ~(Evaluable(a) /\ IsDue(a, listed[a].obj))
    /\ Evaluated(a)
    /\ UNCHANGED <<store, cache, status, manualVars, writes>>

\* The agent is not due and updateNextRunTime writes a freshly jittered
\* nextRunTime to its status; only a current copy gets through.
EvaluateAgentNotDue(a) ==
    /\ EvaluateSkip(a)
    /\ Evaluable(a)
    /\ ~IsDue(a, listed[a].obj)
    /\ a \notin Unparsable
    /\ listed[a].current
    /\ Evaluated(a)
    /\ cache' = Outdated(cache, a)
    /\ status' = OutdatedStatus(status, a)
    /\ reconcile' = OutdatedReconcile(reconcile, a)
    /\ UNCHANGED <<store, manual, writes>>

\* Mutant: a due agent is started without asking the limiter.
EvaluateAgentDueUnlimited(a) ==
    /\ sched.pc = "loop" /\ a \in todo
    /\ Evaluable(a)
    /\ IsDue(a, listed[a].obj)
    /\ todo' = todo \ {a}
    /\ sched' = [pc |-> "tryStart", agent |-> a, trigger |-> "scheduled"]
    /\ Evaluated(a)
    /\ UNCHANGED <<inflight, limiterVars, triggers, runs>>
    /\ UNCHANGED <<store, cache, status, manualVars, writes>>

EvaluateAgentDue(a) ==
    /\ EvaluateDue(a)
    /\ Evaluable(a)
    /\ IsDue(a, listed[a].obj)
    /\ Evaluated(a)
    /\ UNCHANGED <<store, cache, status, manualVars, writes>>

\* handleWebhookTrigger reads the agent from the cache; Get may fail.
HandleWebhookTrigger ==
    /\ \/ WebhookDrop
       \/ WebhookTrigger /\ ~cache[Head(triggers)].obj.paused
    /\ UNCHANGED schedulerVars

TriggerRun ==
    /\ \/ TriggerAllow \/ TriggerTryStart \/ TriggerRecordStart
       \/ TriggerConfigFails
       \/ \E r \in RunIds : TriggerSpawn(r)
    /\ UNCHANGED schedulerVars

-----------------------------------------------------------------------------
(* The end of a run: updateAgentAfterRun, then the deferred calls.         *)

\* runner.Execute returns, with a run or with an error.
RunExecuteReturns(r) ==
    /\ runs[r].pc = "executing"
    /\ status[r].pc = "idle"
    /\ status' = [status EXCEPT ![r].pc = "refetch"]
    /\ UNCHANGED <<admissionVars, objectVars, manualVars, writes>>

\* The Get answers from the cache, or fails and ends the update. The new
\* lastRunTime is taken here, before the write.
RunRefetch(r) ==
    /\ status[r].pc = "refetch"
    /\ \/ status' = [status EXCEPT ![r] =
                       [pc |-> "update", stamp |-> 0,
                        current |-> cache[runs[r].agent].current]]
       \/ status' = [status EXCEPT ![r] = StatusDone]
    /\ UNCHANGED <<admissionVars, objectVars, manualVars, writes>>

\* Mutant: the status is written whatever version was read.
RunUpdateStatusForced(r) ==
    LET a == runs[r].agent IN
    /\ status[r].pc = "update"
    /\ store' = [store EXCEPT ![a].lastRun = status[r].stamp]
    /\ cache' = Outdated(cache, a)
    /\ listed' = Outdated(listed, a)
    /\ status' = OutdatedStatus([status EXCEPT ![r] = StatusDone], a)
    /\ reconcile' = OutdatedReconcile(reconcile, a)
    /\ UNCHANGED <<admissionVars, manual, writes>>

RunUpdateStatus(r) ==
    LET a == runs[r].agent IN
    /\ status[r].pc = "update"
    /\ status[r].current
    /\ store' = [store EXCEPT ![a].lastRun = status[r].stamp]
    /\ cache' = Outdated(cache, a)
    /\ listed' = Outdated(listed, a)
    /\ status' = OutdatedStatus([status EXCEPT ![r] = StatusDone], a)
    /\ reconcile' = OutdatedReconcile(reconcile, a)
    /\ UNCHANGED <<admissionVars, manual, writes>>

\* The update fails, on a conflict or otherwise: logged and not retried.
RunUpdateLost(r) ==
    /\ status[r].pc = "update"
    /\ status' = [status EXCEPT ![r] = StatusDone]
    /\ UNCHANGED <<admissionVars, objectVars, manualVars, writes>>

RunEnds(r) ==
    \/ /\ RunRecordComplete(r)
       /\ status[r].pc = "done"
       /\ UNCHANGED schedulerVars
    \/ /\ RunComplete(r)
       /\ status' = [status EXCEPT ![r] = StatusIdle]
       /\ UNCHANGED <<objectVars, manualVars, writes>>

-----------------------------------------------------------------------------
(* LegatorAgentReconciler.Reconcile, and the manual runs it starts.        *)

\* Mutant: the annotation is not looked at.
ReconcileGetBlind(a) ==
    /\ reconcile[a].pc = "idle"
    /\ reconcile' = [reconcile EXCEPT ![a] = [pc |-> "status", copy |-> cache[a]]]
    /\ UNCHANGED <<admissionVars, objectVars, status, manual, writes>>

\* Mutant: an annotation is taken for granted.
ReconcileGetEager(a) ==
    /\ reconcile[a].pc = "idle"
    /\ reconcile' = [reconcile EXCEPT ![a] = [pc |-> "annotation", copy |-> cache[a]]]
    /\ UNCHANGED <<admissionVars, objectVars, status, manual, writes>>

\* The Get, from the cache. A Reconcile of an agent starts when its object
\* changed or an earlier one failed; it may run at any time.
ReconcileGet(a) ==
    /\ reconcile[a].pc = "idle"
    /\ reconcile' = [reconcile EXCEPT ![a] =
                       [pc |-> IF cache[a].obj.runNow THEN "annotation"
                                                      ELSE "status",
                        copy |-> cache[a]]]
    /\ UNCHANGED <<admissionVars, objectVars, status, manual, writes>>

\* Mutant: the annotation is removed whatever version was read.
ReconcileRunNowForced(a) ==
    /\ reconcile[a].pc = "annotation"
    /\ manual[a] < MaxManual
    /\ store' = [store EXCEPT ![a].runNow = FALSE]
    /\ manual' = [manual EXCEPT ![a] = @ + 1]
    /\ cache' = Outdated(cache, a)
    /\ listed' = Outdated(listed, a)
    /\ status' = OutdatedStatus(status, a)
    /\ reconcile' = [reconcile EXCEPT ![a].pc = "status"]
    /\ UNCHANGED <<admissionVars, writes>>

\* The annotation is removed with an Update of the copy, and only then is
\* the manual run started, past the tracker and the limiter.
ReconcileRunNow(a) ==
    /\ reconcile[a].pc = "annotation"
    /\ reconcile[a].copy.current
    /\ manual[a] < MaxManual
    /\ store' = [store EXCEPT ![a].runNow = FALSE]
    /\ manual' = [manual EXCEPT ![a] = @ + 1]
    /\ cache' = Outdated(cache, a)
    /\ listed' = Outdated(listed, a)
    /\ status' = OutdatedStatus(status, a)
    /\ reconcile' = [reconcile EXCEPT ![a].pc = "status"]
    /\ UNCHANGED <<admissionVars, writes>>

\* The last write of Reconcile: the phase and condition in the status.
\* Writing what is already there leaves the object as it is.
ReconcileStatus(a) ==
    /\ reconcile[a].pc = "status"
    /\ reconcile[a].copy.current
    /\ reconcile' = [reconcile EXCEPT ![a] = ReconcileIdle]
    /\ \/ /\ cache' = Outdated(cache, a)
          /\ listed' = Outdated(listed, a)
          /\ status' = OutdatedStatus(status, a)
       \/ UNCHANGED <<cache, listed, status>>
    /\ UNCHANGED <<admissionVars, store, manual, writes>>

\* Any of its writes, or the Get of the environment, fails: Reconcile
\* returns the error and the request is queued again.
ReconcileFails(a) ==
    /\ reconcile[a].pc # "idle"
    /\ reconcile' = [reconcile EXCEPT ![a] = ReconcileIdle]
    /\ UNCHANGED <<admissionVars, objectVars, status, manual, writes>>

\* A manual run ends; nothing is recorded anywhere.
ManualRunEnds(a) ==
    /\ manual[a] > 0
    /\ manual' = [manual EXCEPT ![a] = @ - 1]
    /\ UNCHANGED <<admissionVars, objectVars, status, reconcile, writes>>

-----------------------------------------------------------------------------
(* The environment.                                                        *)

\* A user or another client pauses, resumes or annotates the agent.
OtherWrite(a) ==
    /\ writes < MaxWrites
    /\ writes' = writes + 1
    /\ \/ store' = [store EXCEPT ![a].paused = ~@]
       \/ store' = [store EXCEPT ![a].runNow = TRUE]
    /\ cache' = Outdated(cache, a)
    /\ listed' = Outdated(listed, a)
    /\ status' = OutdatedStatus(status, a)
    /\ reconcile' = OutdatedReconcile(reconcile, a)
    /\ UNCHANGED <<admissionVars, manual>>

CacheSync(a) ==
    /\ cache' = [cache EXCEPT ![a] = Fetched(a)]
    /\ UNCHANGED <<admissionVars, store, listed, status, manualVars, writes>>

WebhookArrives(a) == WebhookSend(a) /\ UNCHANGED schedulerVars

OlderAge(age) == IF age = None \/ age > Interval THEN age ELSE age + 1
OlderObject(obj) == [obj EXCEPT !.lastRun = OlderAge(@)]
OlderCopy(copy) ==
    IF copy = NoCopy THEN NoCopy ELSE [copy EXCEPT !.obj = OlderObject(@)]
OlderCopies(copies) == [a \in Agents |-> OlderCopy(copies[a])]

ClockAdvance ==
    /\ Advance
    /\ store' = [a \in Agents |-> OlderObject(store[a])]
    /\ cache' = OlderCopies(cache)
    /\ listed' = OlderCopies(listed)
    /\ reconcile' = [a \in Agents |-> [reconcile[a] EXCEPT !.copy = OlderCopy(@)]]
    /\ status' = [r \in RunIds |->
                    IF status[r].pc = "update"
                    THEN [status[r] EXCEPT !.stamp = OlderAge(@)] ELSE status[r]]
    /\ UNCHANGED <<manual, writes>>

\* The process starts again, with a freshly synced cache.
ProcessRestart ==
    /\ Restart
    /\ cache' = [a \in Agents |-> Fetched(a)]
    /\ listed' = [a \in Agents |-> NoCopy]
    /\ status' = [r \in RunIds |-> StatusIdle]
    /\ reconcile' = [a \in Agents |-> ReconcileIdle]
    /\ manual' = [a \in Agents |-> 0]
    /\ UNCHANGED <<store, writes>>

-----------------------------------------------------------------------------
Init ==
    /\ AdmissionInit
    /\ store \in [Agents ->
                   [paused : BOOLEAN, runNow : {FALSE}, lastRun : {None}]]
    /\ cache = [a \in Agents |-> Fetched(a)]
    /\ listed = [a \in Agents |-> NoCopy]
    /\ status = [r \in RunIds |-> StatusIdle]
    /\ reconcile = [a \in Agents |-> ReconcileIdle]
    /\ manual = [a \in Agents |-> 0]
    /\ writes = 0

SchedulingStep ==
    \/ Tick \/ HandleWebhookTrigger \/ TriggerRun
    \/ \E a \in Agents : EvaluateAgentSkip(a) \/ EvaluateAgentNotDue(a)
                             \/ EvaluateAgentDue(a)

RunGoroutine(r) ==
    RunExecuteReturns(r) \/ RunRefetch(r) \/ RunUpdateStatus(r)
       \/ RunUpdateLost(r) \/ RunEnds(r)

ReconcileStep(a) ==
    ReconcileGet(a) \/ ReconcileRunNow(a) \/ ReconcileStatus(a)
       \/ ReconcileFails(a)

OutsideStep ==
    \/ ClockAdvance \/ ProcessRestart
    \/ \E a \in Agents : OtherWrite(a) \/ CacheSync(a) \/ WebhookArrives(a)

Next ==
    \/ SchedulingStep
    \/ \E r \in RunIds : RunGoroutine(r)
    \/ \E a \in Agents : ReconcileStep(a) \/ ManualRunEnds(a)
    \/ OutsideStep

Spec == Init /\ [][Next]_vars

\* The goroutines keep running, runs end by their timeout, the cache
\* catches up, time passes; and an operation on the API server that is
\* tried again and again (List by each tick, the annotation Update by the
\* requeued Reconcile, the configuration of a run) succeeds in the end.
\* The process is not restarted for ever.
Fairness ==
    /\ <>[][~ProcessRestart]_vars
    /\ WF_vars(SchedulingStep)
    /\ WF_vars(ClockAdvance)
    /\ SF_vars(TickList(Agents) /\ Tick)
    /\ SF_vars(\E r \in RunIds : TriggerSpawn(r) /\ UNCHANGED schedulerVars)
    /\ \A r \in RunIds : WF_vars(RunGoroutine(r))
    /\ \A a \in Agents :
         /\ WF_vars(CacheSync(a))
         /\ WF_vars(ReconcileStep(a))
         /\ SF_vars(ReconcileRunNow(a))
         /\ WF_vars(ManualRunEnds(a))

FairSpec == Spec /\ Fairness

-----------------------------------------------------------------------------
(* Properties.                                                             *)

\* status.lastRunTime never moves back: the time is taken before the write,
\* runs of the same agent may be finishing together and copies are read
\* from a lagging cache, but a write from an outdated copy is refused.
LastRunMonotone ==
    [][ClockAdvance \/ \A a \in Agents : store[a].lastRun # None =>
          store'[a].lastRun # None /\ store'[a].lastRun <= store[a].lastRun]_vars

\* The run-now annotation starts at most one manual run each time it is
\* set: a run starts only as the stored annotation is removed, although
\* Reconcile reads it from a cache that may still show it afterwards, and is
\* retried after errors and restarts.
RunNowAtMostOnce ==
    [][\A a \in Agents : manual'[a] > manual[a] =>
          store[a].runNow /\ ~store'[a].runNow]_vars

\* Why both hold: a copy that is current is a copy of what is stored, so a
\* current Reconcile at the annotation still finds it in the store; and the
\* time a run is about to store is not before the one that is stored.
CacheExact == \A a \in Agents : cache[a].current => cache[a].obj = store[a]

AnnotationExact ==
    \A a \in Agents :
        reconcile[a].pc = "annotation" /\ reconcile[a].copy.current => store[a].runNow

UpdatingRunsExecute ==
    \A r \in RunIds : status[r].pc \in {"refetch", "update"} => runs[r].pc = "executing"

StampsInOrder ==
    \A r \in RunIds : status[r].pc = "update" /\ status[r].current =>
        LET lastRun == store[runs[r].agent].lastRun IN
        lastRun # None => status[r].stamp <= lastRun

\* The inductive invariant: types, and copies that agree with what is stored
\* as long as no other write of the scheduler, the reconciler or another
\* client has outdated them.
SchedulerInv ==
    TypeOK /\ CacheExact /\ AnnotationExact /\ UpdatingRunsExecute /\ StampsInOrder

\* A run-now request is not forgotten over errors, stale reads and restarts:
\* the annotation of an agent whose status the scheduler does not keep
\* writing, since it is paused or has no schedule, is taken up in the end.
RunNowServed ==
    \A a \in Agents :
        LET quiet == store[a].paused \/ a \notin Scheduled
        IN  (store[a].runNow /\ quiet) ~> ~(store[a].runNow /\ quiet)

\* An agent with a schedule that never ran is started, unless it is paused:
\* no sequence of failed configurations, lost updates, stale tracker
\* entries, rate limits or restarts wedges it.
NewAgentStarts ==
    \A a \in Scheduled :
        store[a].lastRun = None ~>
            (store[a].paused \/ \E r \in RunIds : runs[r].agent = a)

\* The documented per-agent limit: no overlapping runs of an agent.
NoOverlappingRuns ==
    \A a \in Agents :
        Cardinality(Holding(a)) + manual[a] <= MaxConcurrentPerAgent

=============================================================================
