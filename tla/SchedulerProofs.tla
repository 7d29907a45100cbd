-------------------------- MODULE SchedulerProofs ---------------------------
(***************************************************************************)
(* The scheduler with its LegatorAgent objects implements RunAdmission, so *)
(* that everything proved there holds of it; and what optimistic           *)
(* concurrency protects: the run-now annotation and lastRunTime. For any   *)
(* agents, schedules, runs and limits.                                     *)
(***************************************************************************)
EXTENDS Scheduler, RunAdmissionProofs

-----------------------------------------------------------------------------
(* Refinement.                                                             *)

\* What the scheduling goroutine does to an agent is a step of RunAdmission.
LEMMA SchedulingIsAdmission ==
    ASSUME SchedulingStep
    PROVE  SchedulerStep
<1>1. CASE Tick
  BY <1>1 DEF Tick, SchedulerStep
<1>2. CASE HandleWebhookTrigger
  BY <1>2 DEF HandleWebhookTrigger, SchedulerStep, TakeTrigger
<1>3. CASE TriggerRun
  BY <1>3 DEF TriggerRun, SchedulerStep
<1>4. ASSUME NEW a \in Agents,
             EvaluateAgentSkip(a) \/ EvaluateAgentNotDue(a) \/ EvaluateAgentDue(a)
      PROVE  SchedulerStep
  BY <1>4 DEF EvaluateAgentSkip, EvaluateAgentNotDue, EvaluateAgentDue, SchedulerStep
<1> QED
  BY <1>1, <1>2, <1>3, <1>4 DEF SchedulingStep

\* Every step of the scheduler is a step of RunAdmission or does not touch
\* its variables.
LEMMA SchedulerStepIsAdmission ==
    ASSUME [Next]_vars
    PROVE  [AdmissionNext]_admissionVars
<1>1. CASE SchedulingStep
  BY <1>1, SchedulingIsAdmission DEF AdmissionNext
<1>2. ASSUME NEW r \in RunIds, RunGoroutine(r)
      PROVE  [AdmissionNext]_admissionVars
  <2>1. CASE RunEnds(r)
    BY <2>1 DEF RunEnds, AdmissionNext, RunStep
  <2>2. CASE ~RunEnds(r)
    BY <1>2, <2>2 DEF RunGoroutine, RunExecuteReturns, RunRefetch, RunUpdateStatus,
                      RunUpdateLost
  <2> QED
    BY <2>1, <2>2
<1>3. ASSUME NEW a \in Agents, ReconcileStep(a) \/ ManualRunEnds(a)
      PROVE  UNCHANGED admissionVars
  BY <1>3 DEF ReconcileStep, ReconcileGet, ReconcileRunNow, ReconcileStatus,
              ReconcileFails, ManualRunEnds
<1>4. CASE OutsideStep
  BY <1>4 DEF OutsideStep, ClockAdvance, ProcessRestart, OtherWrite, CacheSync,
              WebhookArrives, AdmissionNext, Environment
<1>5. CASE UNCHANGED vars
  BY <1>5 DEF vars
<1> QED
  BY <1>1, <1>2, <1>3, <1>4, <1>5 DEF Next

\* The scheduler with its objects, reconciler and status updates implements
\* the admission of runs.
THEOREM SchedulerImplementsAdmission == Spec => AdmissionSpec
<1>1. Init => AdmissionInit
  BY DEF Init
<1> QED
  BY <1>1, SchedulerStepIsAdmission, PTL DEF Spec, AdmissionSpec

\* So the runs it starts stay within the limits, whatever the objects, their
\* lagging copies and the reconciler do.
THEOREM SchedulerRunsBounded == Spec => []ConcurrencyBounded
  BY SchedulerImplementsAdmission, ConcurrencyIsBounded, PTL

\* And so do its starts within an hour.
THEOREM SchedulerRateBounded == Spec => []HourlyRateBounded
  BY SchedulerImplementsAdmission, HourlyRateIsBounded, PTL

-----------------------------------------------------------------------------
(* Copies of an object, when it is written and when time passes.           *)

\* The absence of a copy is not changed by a write.
LEMMA NoCopyOutdated == [NoCopy EXCEPT !.current = FALSE] = NoCopy
<1> DEFINE new == [NoCopy EXCEPT !.current = FALSE]
<1>1. new = [x \in DOMAIN NoCopy |-> IF x = "current" THEN FALSE ELSE NoCopy[x]]
  OBVIOUS
<1>2. /\ DOMAIN NoCopy = {"obj", "current"} /\ NoCopy["current"] = FALSE
      /\ NoCopy = [x \in DOMAIN NoCopy |-> NoCopy[x]]
  BY DEF NoCopy
<1> QED
  BY <1>1, <1>2

\* A write of a outdates the copy of a, and keeps what the copies say.
LEMMA OutdatedCopies ==
    ASSUME NEW C, C = Copy \/ C = Copy \cup {NoCopy},
           NEW copies \in [Agents -> C], NEW a \in Agents
    PROVE  /\ Outdated(copies, a) \in [Agents -> C]
           /\ ~Outdated(copies, a)[a].current
           /\ \A b \in Agents \ {a} : Outdated(copies, a)[b] = copies[b]
<1>1. [copies[a] EXCEPT !.current = FALSE] \in C
  <2>1. CASE copies[a] \in Copy
    <3>1. [copies[a] EXCEPT !.current = FALSE] \in Copy
      BY <2>1 DEF Copy
    <3> QED
      BY <3>1
  <2>2. CASE copies[a] = NoCopy /\ C = Copy \cup {NoCopy}
    BY <2>2, NoCopyOutdated
  <2> QED
    BY <2>1, <2>2
<1>2. ~[copies[a] EXCEPT !.current = FALSE].current
  BY DEF Copy, NoCopy
<1> QED
  BY <1>1, <1>2 DEF Outdated

\* So does it with the copies in the status updates of the runs of a.
LEMMA OutdatedStatuses ==
    ASSUME NEW st \in [RunIds -> StatusRec], NEW a
    PROVE  /\ OutdatedStatus(st, a) \in [RunIds -> StatusRec]
           /\ \A r \in RunIds :
                /\ OutdatedStatus(st, a)[r].pc = st[r].pc
                /\ OutdatedStatus(st, a)[r].stamp = st[r].stamp
                /\ OutdatedStatus(st, a)[r].current =>
                     st[r].current /\ runs[r].agent # a
<1>1. \A r \in RunIds :
        OutdatedStatus(st, a)[r] = IF runs[r].agent = a THEN [st[r] EXCEPT !.current = FALSE]
                                   ELSE st[r]
  BY DEF OutdatedStatus
<1>2. \A r \in RunIds :
        /\ [st[r] EXCEPT !.current = FALSE] \in StatusRec
        /\ [st[r] EXCEPT !.current = FALSE].pc = st[r].pc
        /\ [st[r] EXCEPT !.current = FALSE].stamp = st[r].stamp
        /\ ~[st[r] EXCEPT !.current = FALSE].current
  BY DEF StatusRec
<1>3. OutdatedStatus(st, a) \in [RunIds -> StatusRec]
  BY <1>1, <1>2 DEF OutdatedStatus
<1> QED
  BY <1>1, <1>2, <1>3

\* And with the copy in the Reconcile of a.
LEMMA OutdatedReconciles ==
    ASSUME NEW rec \in [Agents -> ReconcileRec], NEW a \in Agents
    PROVE  /\ OutdatedReconcile(rec, a) \in [Agents -> ReconcileRec]
           /\ OutdatedReconcile(rec, a)[a].pc = rec[a].pc
           /\ ~OutdatedReconcile(rec, a)[a].copy.current
           /\ \A b \in Agents \ {a} : OutdatedReconcile(rec, a)[b] = rec[b]
<1> DEFINE new == [rec[a] EXCEPT !.copy.current = FALSE]
<1>1. rec[a].copy \in Copy \cup {NoCopy} /\ rec[a].pc \in {"idle", "annotation", "status"}
  BY DEF ReconcileRec
<1>2. [rec[a].copy EXCEPT !.current = FALSE] \in Copy \cup {NoCopy}
  <2>1. CASE rec[a].copy \in Copy
    BY <2>1 DEF Copy
  <2>2. CASE rec[a].copy = NoCopy
    BY <2>2, NoCopyOutdated
  <2> QED
    BY <1>1, <2>1, <2>2
<1>3. ~[rec[a].copy EXCEPT !.current = FALSE].current
  BY <1>1 DEF Copy, NoCopy
<1>4. /\ new.pc = rec[a].pc /\ new.copy = [rec[a].copy EXCEPT !.current = FALSE]
      /\ new \in ReconcileRec
  BY <1>2 DEF ReconcileRec
<1>5. OutdatedReconcile(rec, a) = [rec EXCEPT ![a] = new]
  BY DEF OutdatedReconcile
<1> QED
  BY <1>3, <1>4, <1>5

\* Ages stay ages, and in order.
LEMMA OlderAges ==
    /\ \A age \in Age : OlderAge(age) \in Age
    /\ OlderAge(None) = None /\ None \notin Age
    /\ \A x, y \in Age : x <= y => OlderAge(x) <= OlderAge(y)
  BY AdmissionConstants, SchedulerConstants DEF OlderAge, Age

\* An object that gets older keeps everything but the age of its last run.
LEMMA OlderObjects ==
    ASSUME NEW obj \in Object
    PROVE  /\ OlderObject(obj) \in Object
           /\ OlderObject(obj).runNow = obj.runNow
           /\ OlderObject(obj).lastRun = OlderAge(obj.lastRun)
  BY OlderAges DEF OlderObject, Object

\* A copy stays current when it gets older.
LEMMA OlderCopiesKept ==
    ASSUME NEW copy \in Copy \cup {NoCopy}
    PROVE  /\ OlderCopy(copy) \in Copy \cup {NoCopy}
           /\ copy \in Copy => OlderCopy(copy) \in Copy
           /\ OlderCopy(copy).current => copy.current /\ OlderCopy(copy).obj = OlderObject(copy.obj)
<1>1. CASE copy = NoCopy
  BY <1>1 DEF OlderCopy, NoCopy
<1>2. CASE copy # NoCopy
  <2>1. copy \in Copy /\ OlderObject(copy.obj) \in Object
    BY <1>2, OlderObjects DEF Copy
  <2> QED
    BY <1>2, <2>1 DEF OlderCopy, Copy
<1> QED
  BY <1>1, <1>2

-----------------------------------------------------------------------------
(* The types.                                                              *)

\* The state a run or a Reconcile is in when nothing is under way.
LEMMA IdleTypes ==
    /\ NoCopy \in Copy \cup {NoCopy}
    /\ StatusIdle \in StatusRec /\ StatusDone \in StatusRec /\ ReconcileIdle \in ReconcileRec
    /\ \A a \in Agents : store \in [Agents -> Object] => Fetched(a) \in Copy
  BY SchedulerConstants
     DEF StatusIdle, StatusDone, ReconcileIdle, StatusRec, ReconcileRec, Fetched, Copy, Age

\* An agent's run is of that agent, an executing run of some agent.
LEMMA ExecutingAgent ==
    ASSUME TypeOK, NEW r \in RunIds, runs[r].pc = "executing"
    PROVE  runs[r].agent \in Agents
  BY DEF TypeOK, AdmissionTypeOK, Run, FreeRun

\* The steps of the scheduling goroutine keep the types.
LEMMA SchedulingTypes ==
    ASSUME TypeOK, SchedulingStep, AdmissionTypeOK'
    PROVE  TypeOK'
<1> USE DEF TypeOK
<1>1. CASE UNCHANGED schedulerVars
  BY <1>1 DEF schedulerVars, objectVars, manualVars
<1>2. CASE Tick
  BY <1>1, <1>2 DEF Tick, manualVars
<1>3. CASE HandleWebhookTrigger \/ TriggerRun
  BY <1>1, <1>3 DEF HandleWebhookTrigger, TriggerRun
<1>4. ASSUME NEW a \in Agents, Evaluated(a)
      PROVE  listed' \in [Agents -> Copy \cup {NoCopy}]
  BY <1>4 DEF Evaluated
<1>5. ASSUME NEW a \in Agents, EvaluateAgentSkip(a) \/ EvaluateAgentDue(a)
      PROVE  TypeOK'
  BY <1>4, <1>5 DEF EvaluateAgentSkip, EvaluateAgentDue, manualVars
<1>6. ASSUME NEW a \in Agents, EvaluateAgentNotDue(a)
      PROVE  TypeOK'
  <2>1. cache' \in [Agents -> Copy]
    BY <1>6, OutdatedCopies DEF EvaluateAgentNotDue
  <2>2. status' \in [RunIds -> StatusRec] /\ reconcile' \in [Agents -> ReconcileRec]
    BY <1>6, OutdatedStatuses, OutdatedReconciles DEF EvaluateAgentNotDue
  <2> QED
    BY <1>4, <1>6, <2>1, <2>2 DEF EvaluateAgentNotDue
<1> QED
  BY <1>2, <1>3, <1>5, <1>6 DEF SchedulingStep

\* So do the steps of a run.
LEMMA RunTypes ==
    ASSUME TypeOK, UpdatingRunsExecute, NEW r \in RunIds, RunGoroutine(r), AdmissionTypeOK'
    PROVE  TypeOK'
<1> USE DEF TypeOK, objectVars, manualVars
<1>1. ASSUME NEW new \in StatusRec, status' = [status EXCEPT ![r] = new],
             UNCHANGED <<objectVars, manualVars, writes>>
      PROVE  TypeOK'
  BY <1>1
<1>2. CASE RunExecuteReturns(r)
  <2>1. [status[r] EXCEPT !.pc = "refetch"] \in StatusRec
    BY DEF StatusRec
  <2> QED
    BY <1>1, <1>2, <2>1 DEF RunExecuteReturns
<1>3. CASE RunRefetch(r)
  <2>1. runs[r].agent \in Agents
    BY <1>3, ExecutingAgent DEF RunRefetch, UpdatingRunsExecute
  <2>2. [pc |-> "update", stamp |-> 0, current |-> cache[runs[r].agent].current] \in StatusRec
    BY <2>1, SchedulerConstants DEF StatusRec, Age, Copy
  <2> QED
    BY <1>1, <1>3, <2>2, IdleTypes DEF RunRefetch
<1>4. CASE RunUpdateStatus(r)
  <2> DEFINE a == runs[r].agent
  <2>1. a \in Agents
    BY <1>4, ExecutingAgent DEF RunUpdateStatus, UpdatingRunsExecute
  <2>2. /\ cache' = Outdated(cache, a) /\ listed' = Outdated(listed, a)
        /\ status' = OutdatedStatus([status EXCEPT ![r] = StatusDone], a)
        /\ reconcile' = OutdatedReconcile(reconcile, a)
        /\ store' = [store EXCEPT ![a].lastRun = status[r].stamp]
        /\ UNCHANGED <<manual, writes>>
    BY <1>4 DEF RunUpdateStatus
  <2> HIDE DEF a
  <2>3. [status EXCEPT ![r] = StatusDone] \in [RunIds -> StatusRec]
    BY IdleTypes
  <2>4. status' \in [RunIds -> StatusRec] /\ reconcile' \in [Agents -> ReconcileRec]
    BY <2>1, <2>2, <2>3, OutdatedStatuses, OutdatedReconciles
  <2>5. cache' \in [Agents -> Copy] /\ listed' \in [Agents -> Copy \cup {NoCopy}]
    BY <2>1, <2>2, OutdatedCopies
  <2>6. [store[a] EXCEPT !.lastRun = status[r].stamp] \in Object
    BY <2>1 DEF Object, StatusRec
  <2>7. store' \in [Agents -> Object]
    BY <2>2, <2>6
  <2> QED
    BY <2>2, <2>4, <2>5, <2>7
<1>5. CASE RunUpdateLost(r)
  BY <1>1, <1>5, IdleTypes DEF RunUpdateLost
<1>6. CASE RunEnds(r)
  BY <1>1, <1>6, IdleTypes DEF RunEnds, schedulerVars
<1> QED
  BY <1>2, <1>3, <1>4, <1>5, <1>6 DEF RunGoroutine

\* So do the steps of a Reconcile and of a manual run.
LEMMA ReconcileTypes ==
    ASSUME TypeOK, NEW a \in Agents, ReconcileStep(a) \/ ManualRunEnds(a), AdmissionTypeOK'
    PROVE  TypeOK'
<1> USE DEF TypeOK, objectVars
<1>1. ASSUME NEW new \in ReconcileRec, reconcile' = [reconcile EXCEPT ![a] = new]
      PROVE  reconcile' \in [Agents -> ReconcileRec]
  BY <1>1
<1>2. CASE ReconcileGet(a)
  <2>1. [pc |-> IF cache[a].obj.runNow THEN "annotation" ELSE "status", copy |-> cache[a]]
          \in ReconcileRec
    BY DEF ReconcileRec
  <2> QED
    BY <1>1, <1>2, <2>1 DEF ReconcileGet
<1>3. /\ Outdated(cache, a) \in [Agents -> Copy]
      /\ Outdated(listed, a) \in [Agents -> Copy \cup {NoCopy}]
      /\ OutdatedStatus(status, a) \in [RunIds -> StatusRec]
  BY OutdatedCopies, OutdatedStatuses
<1>4. CASE ReconcileRunNow(a)
  <2>1. [reconcile[a] EXCEPT !.pc = "status"] \in ReconcileRec
    BY DEF ReconcileRec
  <2>2. [store[a] EXCEPT !.runNow = FALSE] \in Object
    BY DEF Object
  <2>3. store' \in [Agents -> Object] /\ reconcile' \in [Agents -> ReconcileRec]
    BY <1>4, <2>1, <2>2 DEF ReconcileRunNow
  <2>4. manual' \in [Agents -> 0..MaxManual]
    BY <1>4, SchedulerConstants DEF ReconcileRunNow
  <2> QED
    BY <1>3, <1>4, <2>3, <2>4 DEF ReconcileRunNow
<1>5. CASE ReconcileStatus(a)
  BY <1>1, <1>3, <1>5, IdleTypes DEF ReconcileStatus
<1>6. CASE ReconcileFails(a)
  BY <1>1, <1>6, IdleTypes DEF ReconcileFails
<1>7. CASE ManualRunEnds(a)
  <2>1. manual' \in [Agents -> 0..MaxManual]
    BY <1>7, SchedulerConstants DEF ManualRunEnds
  <2> QED
    BY <1>7, <2>1 DEF ManualRunEnds
<1> QED
  BY <1>2, <1>4, <1>5, <1>6, <1>7 DEF ReconcileStep

\* So do the steps of the environment.
LEMMA OutsideTypes ==
    ASSUME TypeOK, OutsideStep, AdmissionTypeOK'
    PROVE  TypeOK'
<1> USE DEF TypeOK, manualVars
<1>1. CASE ClockAdvance
  <2>1. store' \in [Agents -> Object]
    BY <1>1, OlderObjects DEF ClockAdvance
  <2>2. cache' \in [Agents -> Copy] /\ listed' \in [Agents -> Copy \cup {NoCopy}]
    BY <1>1, OlderCopiesKept DEF ClockAdvance, OlderCopies
  <2>3. \A a \in Agents : [reconcile[a] EXCEPT !.copy = OlderCopy(@)] \in ReconcileRec
    BY OlderCopiesKept DEF ReconcileRec
  <2>4. \A r \in RunIds : [status[r] EXCEPT !.stamp = OlderAge(@)] \in StatusRec
    BY OlderAges DEF StatusRec
  <2>5. reconcile' \in [Agents -> ReconcileRec] /\ status' \in [RunIds -> StatusRec]
    BY <1>1, <2>3, <2>4 DEF ClockAdvance
  <2> QED
    BY <1>1, <2>1, <2>2, <2>5 DEF ClockAdvance
<1>2. CASE ProcessRestart
  BY <1>2, IdleTypes, SchedulerConstants DEF ProcessRestart
<1>3. ASSUME NEW a \in Agents, OtherWrite(a)
      PROVE  TypeOK'
  <2>1. /\ [store[a] EXCEPT !.paused = ~@] \in Object
        /\ [store[a] EXCEPT !.runNow = TRUE] \in Object
    BY DEF Object
  <2>2. store' \in [Agents -> Object]
    BY <1>3, <2>1 DEF OtherWrite
  <2>3. cache' \in [Agents -> Copy] /\ listed' \in [Agents -> Copy \cup {NoCopy}]
    BY <1>3, OutdatedCopies DEF OtherWrite
  <2>4. status' \in [RunIds -> StatusRec] /\ reconcile' \in [Agents -> ReconcileRec]
    BY <1>3, OutdatedStatuses, OutdatedReconciles DEF OtherWrite
  <2>5. writes' \in 0..MaxWrites
    BY <1>3, SchedulerConstants DEF OtherWrite
  <2> QED
    BY <1>3, <2>2, <2>3, <2>4, <2>5 DEF OtherWrite
<1>4. ASSUME NEW a \in Agents, CacheSync(a)
      PROVE  TypeOK'
  BY <1>4, IdleTypes DEF CacheSync
<1>5. ASSUME NEW a \in Agents, WebhookArrives(a)
      PROVE  TypeOK'
  BY <1>5 DEF WebhookArrives, schedulerVars, objectVars
<1> QED
  BY <1>1, <1>2, <1>3, <1>4, <1>5 DEF OutsideStep

\* The types are preserved by every step.
LEMMA SchedulerTypeStep ==
    ASSUME TypeOK, UpdatingRunsExecute, [Next]_vars
    PROVE  TypeOK'
<1>1. AdmissionTypeOK'
  BY SchedulerStepIsAdmission, AdmissionTypeStep DEF TypeOK
<1>2. CASE UNCHANGED vars
  BY <1>1, <1>2 DEF vars, TypeOK, schedulerVars, objectVars, manualVars
<1> QED
  BY <1>1, <1>2, SchedulingTypes, RunTypes, ReconcileTypes, OutsideTypes DEF Next

-----------------------------------------------------------------------------
(* What current copies guarantee.                                          *)

\* A cached copy that is current is what is stored.
LEMMA CacheExactStep ==
    ASSUME TypeOK, UpdatingRunsExecute, CacheExact, [Next]_vars
    PROVE  CacheExact'
<1>1. ASSUME UNCHANGED <<store, cache>>
      PROVE  CacheExact'
  BY <1>1 DEF CacheExact
<1>2. ASSUME NEW a \in Agents, cache' = Outdated(cache, a),
             \A b \in Agents \ {a} : store'[b] = store[b]
      PROVE  CacheExact'
  <2>1. /\ ~cache'[a].current
        /\ \A b \in Agents \ {a} : cache'[b] = cache[b]
    BY <1>2, OutdatedCopies DEF TypeOK
  <2> QED
    BY <1>2, <2>1 DEF CacheExact
<1>3. CASE SchedulingStep
  <2>1. ASSUME NEW a \in Agents, EvaluateAgentNotDue(a)
        PROVE  CacheExact'
    BY <1>2, <2>1 DEF EvaluateAgentNotDue
  <2> QED
    BY <1>1, <1>3, <2>1
       DEF SchedulingStep, Tick, HandleWebhookTrigger, TriggerRun, EvaluateAgentSkip,
           EvaluateAgentDue, schedulerVars, objectVars
<1>4. ASSUME NEW r \in RunIds, RunGoroutine(r)
      PROVE  CacheExact'
  <2>1. CASE RunUpdateStatus(r)
    <3>1. runs[r].agent \in Agents
      BY <2>1, ExecutingAgent DEF RunUpdateStatus, UpdatingRunsExecute
    <3> QED
      BY <1>2, <2>1, <3>1 DEF RunUpdateStatus
  <2> QED
    BY <1>1, <1>4, <2>1 DEF RunGoroutine, RunExecuteReturns, RunRefetch, RunUpdateLost,
                            RunEnds, schedulerVars, objectVars
<1>5. ASSUME NEW a \in Agents, ReconcileStep(a) \/ ManualRunEnds(a)
      PROVE  CacheExact'
  <2>1. CASE ReconcileRunNow(a)
    BY <1>2, <2>1 DEF ReconcileRunNow
  <2>2. CASE ReconcileStatus(a)
    BY <1>1, <1>2, <2>2 DEF ReconcileStatus
  <2> QED
    BY <1>1, <1>5, <2>1, <2>2 DEF ReconcileStep, ReconcileGet, ReconcileFails,
                                  ManualRunEnds, objectVars
<1>6. CASE ClockAdvance
  BY <1>6, OlderCopiesKept DEF ClockAdvance, OlderCopies, CacheExact, TypeOK
<1>7. CASE ProcessRestart
  BY <1>7 DEF ProcessRestart, Fetched, CacheExact
<1>8. ASSUME NEW a \in Agents, OtherWrite(a) \/ CacheSync(a) \/ WebhookArrives(a)
      PROVE  CacheExact'
  <2>1. CASE OtherWrite(a)
    <3>1. \A b \in Agents \ {a} : store'[b] = store[b]
      BY <2>1 DEF OtherWrite, TypeOK
    <3> QED
      BY <1>2, <2>1, <3>1 DEF OtherWrite
  <2>2. CASE CacheSync(a)
    BY <2>2 DEF CacheSync, Fetched, CacheExact, TypeOK
  <2>3. CASE WebhookArrives(a)
    BY <1>1, <2>3 DEF WebhookArrives, schedulerVars, objectVars
  <2> QED
    BY <1>8, <2>1, <2>2, <2>3
<1>9. CASE UNCHANGED vars
  BY <1>1, <1>9 DEF vars, schedulerVars, objectVars
<1> QED
  BY <1>3, <1>4, <1>5, <1>6, <1>7, <1>8, <1>9 DEF Next, OutsideStep

\* A Reconcile that saw the annotation in a copy that is still current finds
\* it in the store.
LEMMA AnnotationExactStep ==
    ASSUME TypeOK, UpdatingRunsExecute, CacheExact, AnnotationExact, [Next]_vars
    PROVE  AnnotationExact'
<1>1. ASSUME UNCHANGED reconcile,
             \A a \in Agents : store[a].runNow => store'[a].runNow
      PROVE  AnnotationExact'
  BY <1>1 DEF AnnotationExact
<1>2. ASSUME NEW a \in Agents, reconcile' = OutdatedReconcile(reconcile, a),
             \A b \in Agents \ {a} : store'[b] = store[b]
      PROVE  AnnotationExact'
  <2>1. /\ ~reconcile'[a].copy.current
        /\ \A b \in Agents \ {a} : reconcile'[b] = reconcile[b]
    BY <1>2, OutdatedReconciles DEF TypeOK
  <2> QED
    BY <1>2, <2>1 DEF AnnotationExact
<1>3. ASSUME NEW a \in Agents, reconcile'[a].pc # "annotation",
             \A b \in Agents \ {a} : reconcile'[b] = reconcile[b] /\ store'[b] = store[b]
      PROVE  AnnotationExact'
  BY <1>3 DEF AnnotationExact
<1>4. CASE SchedulingStep
  <2>1. ASSUME NEW a \in Agents, EvaluateAgentNotDue(a)
        PROVE  AnnotationExact'
    BY <1>2, <2>1 DEF EvaluateAgentNotDue
  <2> QED
    BY <1>1, <1>4, <2>1
       DEF SchedulingStep, Tick, HandleWebhookTrigger, TriggerRun, EvaluateAgentSkip,
           EvaluateAgentDue, schedulerVars, objectVars, manualVars
<1>5. ASSUME NEW r \in RunIds, RunGoroutine(r)
      PROVE  AnnotationExact'
  <2>1. CASE RunUpdateStatus(r)
    <3>1. runs[r].agent \in Agents
      BY <2>1, ExecutingAgent DEF RunUpdateStatus, UpdatingRunsExecute
    <3> QED
      BY <1>2, <2>1, <3>1 DEF RunUpdateStatus
  <2> QED
    BY <1>1, <1>5, <2>1 DEF RunGoroutine, RunExecuteReturns, RunRefetch, RunUpdateLost,
                            RunEnds, schedulerVars, objectVars, manualVars
<1>6. ASSUME NEW a \in Agents, ReconcileStep(a) \/ ManualRunEnds(a)
      PROVE  AnnotationExact'
  <2>1. CASE ReconcileGet(a)
    <3> DEFINE new == [pc |-> IF cache[a].obj.runNow THEN "annotation" ELSE "status",
                       copy |-> cache[a]]
    <3>1. /\ reconcile' = [reconcile EXCEPT ![a] = new] /\ UNCHANGED store
          /\ new.pc = "annotation" => cache[a].obj.runNow
          /\ new.copy = cache[a]
      BY <2>1 DEF ReconcileGet, objectVars
    <3>2. /\ reconcile'[a] = new
          /\ \A b \in Agents \ {a} : reconcile'[b] = reconcile[b]
      BY <3>1 DEF TypeOK
    <3> QED
      BY <3>1, <3>2 DEF AnnotationExact, CacheExact
  <2>2. CASE ReconcileRunNow(a)
    <3>1. reconcile'[a].pc = "status"
      BY <2>2 DEF ReconcileRunNow, TypeOK, ReconcileRec
    <3>2. \A b \in Agents \ {a} : reconcile'[b] = reconcile[b] /\ store'[b] = store[b]
      BY <2>2 DEF ReconcileRunNow, TypeOK
    <3> QED
      BY <1>3, <3>1, <3>2
  <2>3. CASE ReconcileStatus(a) \/ ReconcileFails(a)
    <3>1. /\ UNCHANGED store /\ reconcile'[a].pc = "idle"
          /\ \A b \in Agents \ {a} : reconcile'[b] = reconcile[b]
      BY <2>3 DEF ReconcileStatus, ReconcileFails, ReconcileIdle, objectVars, TypeOK
    <3> QED
      BY <1>3, <3>1
  <2>4. CASE ManualRunEnds(a)
    BY <1>1, <2>4 DEF ManualRunEnds, objectVars
  <2> QED
    BY <1>6, <2>1, <2>2, <2>3, <2>4 DEF ReconcileStep
<1>7. CASE ClockAdvance
  <2>1. \A a \in Agents : /\ reconcile'[a].pc = reconcile[a].pc
                          /\ reconcile'[a].copy = OlderCopy(reconcile[a].copy)
    BY <1>7 DEF ClockAdvance, TypeOK, ReconcileRec
  <2>2. \A a \in Agents : reconcile'[a].copy.current => reconcile[a].copy.current
    BY <2>1, OlderCopiesKept DEF TypeOK, ReconcileRec
  <2>3. \A a \in Agents : store'[a].runNow = store[a].runNow
    BY <1>7, OlderObjects DEF ClockAdvance, TypeOK
  <2> QED
    BY <2>1, <2>2, <2>3 DEF AnnotationExact
<1>8. CASE ProcessRestart
  BY <1>8 DEF ProcessRestart, ReconcileIdle, AnnotationExact
<1>9. ASSUME NEW a \in Agents, OtherWrite(a) \/ CacheSync(a) \/ WebhookArrives(a)
      PROVE  AnnotationExact'
  <2>1. CASE OtherWrite(a)
    <3>1. \A b \in Agents \ {a} : store'[b] = store[b]
      BY <2>1 DEF OtherWrite, TypeOK
    <3> QED
      BY <1>2, <2>1, <3>1 DEF OtherWrite
  <2>2. CASE CacheSync(a) \/ WebhookArrives(a)
    BY <1>1, <2>2 DEF CacheSync, WebhookArrives, schedulerVars, objectVars, manualVars
  <2> QED
    BY <1>9, <2>1, <2>2
<1>10. CASE UNCHANGED vars
  BY <1>1, <1>10 DEF vars, schedulerVars, objectVars, manualVars
<1> QED
  BY <1>4, <1>5, <1>6, <1>7, <1>8, <1>9, <1>10 DEF Next, OutsideStep

\* A step leaves alone the run goroutines that are updating a status, except
\* those of the restarted process.
LEMMA UpdatingRunsKept ==
    ASSUME TypeOK, UpdatingRunsExecute, [Next]_vars, ~ProcessRestart,
           NEW r \in RunIds, status[r].pc \in {"refetch", "update"}
    PROVE  runs'[r] = runs[r]
<1>1. runs[r].pc = "executing"
  BY DEF UpdatingRunsExecute
<1>2. CASE SchedulingStep
  <2>1. ASSUME NEW q \in RunIds, TriggerSpawn(q)
        PROVE  runs'[r] = runs[r]
    <3>1. q # r
      BY <1>1, <2>1 DEF TriggerSpawn, FreeRun
    <3>2. /\ runs' = [runs EXCEPT ![q] = [pc |-> "executing", agent |-> sched.agent]]
          /\ DOMAIN runs = RunIds
      BY <2>1 DEF TriggerSpawn, TypeOK, AdmissionTypeOK
    <3> QED
      BY <3>1, <3>2
  <2>2. CASE UNCHANGED runs
    BY <2>2
  <2>3. CASE TriggerRun
    BY <2>1, <2>2, <2>3 DEF TriggerRun, TriggerAllow, TriggerTryStart, TriggerRecordStart,
                            TriggerConfigFails
  <2> QED
    BY <1>2, <2>2, <2>3
       DEF SchedulingStep, Tick, TickList, TickListFails, TickDone, HandleWebhookTrigger,
           WebhookDrop, WebhookTrigger, EvaluateAgentSkip, EvaluateAgentNotDue,
           EvaluateAgentDue, EvaluateSkip, EvaluateDue
<1>3. ASSUME NEW q \in RunIds, RunGoroutine(q)
      PROVE  runs'[r] = runs[r]
  <2>1. CASE RunEnds(q)
    <3>1. q # r
      BY <1>1, <2>1 DEF RunEnds, RunComplete
    <3> QED
      BY <2>1, <3>1 DEF RunEnds, RunRecordComplete, RunComplete, TypeOK, AdmissionTypeOK
  <2> QED
    BY <1>3, <2>1 DEF RunGoroutine, RunExecuteReturns, RunRefetch, RunUpdateStatus,
                      RunUpdateLost, admissionVars
<1>4. ASSUME NEW a \in Agents, ReconcileStep(a) \/ ManualRunEnds(a)
      PROVE  runs'[r] = runs[r]
  BY <1>4 DEF ReconcileStep, ReconcileGet, ReconcileRunNow, ReconcileStatus,
              ReconcileFails, ManualRunEnds, admissionVars
<1>5. CASE OutsideStep
  BY <1>5 DEF OutsideStep, ClockAdvance, Advance, OtherWrite, CacheSync, WebhookArrives,
              WebhookSend, admissionVars
<1>6. CASE UNCHANGED vars
  BY <1>6 DEF vars, admissionVars
<1> QED
  BY <1>2, <1>3, <1>4, <1>5, <1>6 DEF Next

\* What a step may do to the status update of a run.
StatusStep(r) ==
    \/ status'[r].pc \notin {"refetch", "update"}
    \/ /\ status'[r].pc = "refetch"
       /\ runs[r].pc = "executing" /\ runs'[r] = runs[r]
    \/ /\ status[r].pc = "refetch" /\ status'[r].pc = "update" /\ status'[r].stamp = 0
       /\ UNCHANGED store
    \/ /\ status'[r].pc = status[r].pc /\ status'[r].stamp = status[r].stamp
       /\ status'[r].current => /\ status[r].current
                                /\ store'[runs[r].agent].lastRun = store[runs[r].agent].lastRun
    \/ /\ ClockAdvance
       /\ status'[r].pc = status[r].pc /\ status'[r].current = status[r].current
       /\ status'[r].stamp = IF status[r].pc = "update" THEN OlderAge(status[r].stamp)
                                                        ELSE status[r].stamp

\* Nothing else happens to it.
LEMMA StatusSteps ==
    ASSUME TypeOK, UpdatingRunsExecute, [Next]_vars, NEW r \in RunIds
    PROVE  StatusStep(r)
<1>1. ASSUME status'[r] = status[r], \A a \in Agents : store'[a].lastRun = store[a].lastRun
      PROVE  StatusStep(r)
  <2>1. CASE status[r].pc \in {"refetch", "update"}
    <3>1. runs[r].agent \in Agents
      BY <2>1, ExecutingAgent DEF UpdatingRunsExecute
    <3> QED
      BY <1>1, <3>1 DEF StatusStep
  <2>2. CASE status[r].pc \notin {"refetch", "update"}
    BY <1>1, <2>2 DEF StatusStep
  <2> QED
    BY <2>1, <2>2
<1>2. ASSUME NEW a \in Agents, NEW st \in [RunIds -> StatusRec],
             status' = OutdatedStatus(st, a),
             st[r] = status[r] \/ st[r] = StatusDone,
             \A b \in Agents \ {a} : store'[b] = store[b]
      PROVE  StatusStep(r)
  <2>1. /\ status'[r].pc = st[r].pc /\ status'[r].stamp = st[r].stamp
        /\ status'[r].current => st[r].current /\ runs[r].agent # a
    BY <1>2, OutdatedStatuses
  <2>2. CASE st[r] = StatusDone
    BY <2>1, <2>2 DEF StatusDone, StatusStep
  <2>3. CASE st[r] = status[r] /\ status[r].pc \in {"refetch", "update"}
    <3>1. runs[r].agent \in Agents
      BY <2>3, ExecutingAgent DEF UpdatingRunsExecute
    <3> QED
      BY <1>2, <2>1, <2>3, <3>1 DEF StatusStep
  <2>4. CASE st[r] = status[r] /\ status[r].pc \notin {"refetch", "update"}
    BY <2>1, <2>4 DEF StatusStep
  <2> QED
    BY <1>2, <2>2, <2>3, <2>4
<1>3. CASE SchedulingStep
  <2>1. ASSUME NEW a \in Agents, EvaluateAgentNotDue(a)
        PROVE  StatusStep(r)
    BY <1>2, <2>1 DEF EvaluateAgentNotDue, TypeOK
  <2> QED
    BY <1>1, <1>3, <2>1
       DEF SchedulingStep, Tick, HandleWebhookTrigger, TriggerRun, EvaluateAgentSkip,
           EvaluateAgentDue, schedulerVars, objectVars, manualVars
<1>4. ASSUME NEW q \in RunIds, RunGoroutine(q)
      PROVE  StatusStep(r)
  <2>1. ASSUME NEW new, status' = [status EXCEPT ![q] = new], UNCHANGED store, q # r
        PROVE  StatusStep(r)
    BY <1>1, <2>1 DEF TypeOK
  <2>2. CASE RunExecuteReturns(q)
    <3>1. status'[q].pc = "refetch" /\ UNCHANGED runs /\ runs[q].pc = "executing"
      BY <2>2 DEF RunExecuteReturns, TypeOK, StatusRec, admissionVars
    <3>2. CASE q # r
      BY <2>1, <2>2, <3>2 DEF RunExecuteReturns, objectVars
    <3> QED
      BY <3>1, <3>2 DEF StatusStep
  <2>3. CASE RunRefetch(q)
    <3>1. CASE q # r
      BY <2>1, <2>3, <3>1 DEF RunRefetch, objectVars
    <3>2. CASE q = r
      <4>1. /\ status[r].pc = "refetch" /\ UNCHANGED store
            /\ \/ status'[r].pc = "update" /\ status'[r].stamp = 0
               \/ status'[r].pc = "done"
        <5>1. DOMAIN status = RunIds
          BY DEF TypeOK
        <5>2. /\ status[r].pc = "refetch" /\ UNCHANGED store
              /\ \/ \E current : status' = [status EXCEPT ![r] =
                                  [pc |-> "update", stamp |-> 0, current |-> current]]
                 \/ status' = [status EXCEPT ![r] = StatusDone]
          BY <2>3, <3>2 DEF RunRefetch, objectVars
        <5> QED
          BY <5>1, <5>2 DEF StatusDone
      <4> QED
        BY <4>1 DEF StatusStep
    <3> QED
      BY <3>1, <3>2
  <2>4. CASE RunUpdateStatus(q)
    <3> DEFINE a == runs[q].agent
               st == [status EXCEPT ![q] = StatusDone]
    <3>1. a \in Agents
      BY <2>4, ExecutingAgent DEF RunUpdateStatus, UpdatingRunsExecute
    <3>2. st \in [RunIds -> StatusRec] /\ (st[r] = status[r] \/ st[r] = StatusDone)
      BY IdleTypes DEF TypeOK
    <3>3. status' = OutdatedStatus(st, a) /\ \A b \in Agents \ {a} : store'[b] = store[b]
      BY <2>4 DEF RunUpdateStatus, TypeOK
    <3> HIDE DEF a, st
    <3> QED
      BY <1>2, <3>1, <3>2, <3>3
  <2>5. CASE RunUpdateLost(q)
    <3>1. CASE q # r
      BY <2>1, <2>5, <3>1 DEF RunUpdateLost, objectVars
    <3>2. CASE q = r
      BY <2>5, <3>2 DEF RunUpdateLost, StatusDone, StatusStep, TypeOK
    <3> QED
      BY <3>1, <3>2
  <2>6. CASE RunEnds(q)
    <3>1. CASE UNCHANGED schedulerVars
      BY <1>1, <3>1 DEF schedulerVars, objectVars
    <3>2. CASE RunComplete(q) /\ status' = [status EXCEPT ![q] = StatusIdle] /\ UNCHANGED store
      <4>1. CASE q # r
        BY <2>1, <3>2, <4>1
      <4>2. CASE q = r
        BY <3>2, <4>2 DEF StatusIdle, StatusStep, TypeOK
      <4> QED
        BY <4>1, <4>2
    <3> QED
      BY <2>6, <3>1, <3>2 DEF RunEnds, objectVars
  <2> QED
    BY <1>4, <2>2, <2>3, <2>4, <2>5, <2>6 DEF RunGoroutine
<1>5. ASSUME NEW a \in Agents, ReconcileStep(a) \/ ManualRunEnds(a)
      PROVE  StatusStep(r)
  <2>1. CASE ReconcileRunNow(a)
    <3>1. \A b \in Agents \ {a} : store'[b] = store[b]
      BY <2>1 DEF ReconcileRunNow, TypeOK
    <3> QED
      BY <1>2, <2>1, <3>1 DEF ReconcileRunNow, TypeOK
  <2>2. CASE ReconcileStatus(a)
    BY <1>1, <1>2, <2>2 DEF ReconcileStatus, TypeOK
  <2> QED
    BY <1>1, <1>5, <2>1, <2>2 DEF ReconcileStep, ReconcileGet, ReconcileFails,
                                  ManualRunEnds, objectVars
<1>6. CASE ClockAdvance
  <2>1. status'[r] = IF status[r].pc = "update"
                     THEN [status[r] EXCEPT !.stamp = OlderAge(@)] ELSE status[r]
    BY <1>6 DEF ClockAdvance
  <2>2. /\ status'[r].pc = status[r].pc /\ status'[r].current = status[r].current
        /\ status'[r].stamp = IF status[r].pc = "update" THEN OlderAge(status[r].stamp)
                                                         ELSE status[r].stamp
    BY <2>1 DEF TypeOK, StatusRec
  <2> QED
    BY <1>6, <2>2 DEF StatusStep
<1>7. CASE ProcessRestart
  BY <1>7 DEF ProcessRestart, StatusIdle, StatusStep
<1>8. ASSUME NEW a \in Agents, OtherWrite(a) \/ CacheSync(a) \/ WebhookArrives(a)
      PROVE  StatusStep(r)
  <2>1. CASE OtherWrite(a)
    <3>1. \A b \in Agents \ {a} : store'[b] = store[b]
      BY <2>1 DEF OtherWrite, TypeOK
    <3> QED
      BY <1>2, <2>1, <3>1 DEF OtherWrite, TypeOK
  <2>2. CASE CacheSync(a) \/ WebhookArrives(a)
    BY <1>1, <2>2 DEF CacheSync, WebhookArrives, schedulerVars, objectVars
  <2> QED
    BY <1>8, <2>1, <2>2
<1>9. CASE UNCHANGED vars
  BY <1>1, <1>9 DEF vars, schedulerVars, objectVars
<1> QED
  BY <1>3, <1>4, <1>5, <1>6, <1>7, <1>8, <1>9 DEF Next, OutsideStep

\* Only an executing run updates a status, and it never stores an earlier time.
LEMMA StatusInvStep ==
    ASSUME TypeOK, UpdatingRunsExecute, StampsInOrder, [Next]_vars
    PROVE  UpdatingRunsExecute' /\ StampsInOrder'
<1> SUFFICES ASSUME NEW r \in RunIds, status'[r].pc \in {"refetch", "update"}
             PROVE  /\ runs'[r].pc = "executing"
                    /\ status'[r].pc = "update" /\ status'[r].current =>
                         (store'[runs'[r].agent].lastRun # None =>
                            status'[r].stamp <= store'[runs'[r].agent].lastRun)
  BY DEF UpdatingRunsExecute, StampsInOrder
<1>1. StatusStep(r)
  BY StatusSteps
<1>2. ~ProcessRestart
  BY DEF ProcessRestart, StatusIdle
<1>3. CASE status'[r].pc = "refetch" /\ runs[r].pc = "executing" /\ runs'[r] = runs[r]
  BY <1>3
<1>4. CASE status[r].pc \in {"refetch", "update"}
  <2> DEFINE a == runs[r].agent
  <2>1. runs'[r] = runs[r] /\ runs[r].pc = "executing"
    BY <1>2, <1>4, UpdatingRunsKept DEF UpdatingRunsExecute
  <2>2. a \in Agents
    BY <2>1, ExecutingAgent
  <2>3. /\ store[a].lastRun \in Age \cup {None}
        /\ status[r].stamp \in Age
        /\ 0 \in Age /\ Age \subseteq Nat
    BY <2>2, SchedulerConstants DEF TypeOK, Object, StatusRec, Age
  <2>4. CASE status'[r].stamp = 0 /\ UNCHANGED store
    <3>1. store[a].lastRun # None => store[a].lastRun \in Nat
      BY <2>3
    <3> QED
      BY <2>1, <2>4, <3>1
  <2>5. CASE /\ status'[r].pc = status[r].pc /\ status'[r].stamp = status[r].stamp
             /\ status'[r].current => status[r].current /\ store'[a].lastRun = store[a].lastRun
    BY <2>1, <2>5 DEF StampsInOrder
  <2>6. CASE /\ ClockAdvance
             /\ status'[r].pc = status[r].pc /\ status'[r].current = status[r].current
             /\ status'[r].stamp = IF status[r].pc = "update" THEN OlderAge(status[r].stamp)
                                                              ELSE status[r].stamp
    <3>1. store'[a].lastRun = OlderAge(store[a].lastRun)
      BY <2>2, <2>6, OlderObjects DEF ClockAdvance, TypeOK
    <3>2. ASSUME status'[r].pc = "update", status'[r].current, store'[a].lastRun # None
          PROVE  status'[r].stamp <= store'[a].lastRun
      <4>1. store[a].lastRun \in Age /\ store[a].lastRun # None
        BY <2>3, <3>1, <3>2, OlderAges
      <4>2. status[r].stamp <= store[a].lastRun
        BY <2>6, <3>2, <4>1 DEF StampsInOrder
      <4> QED
        BY <2>3, <2>6, <3>1, <3>2, <4>1, <4>2, OlderAges
    <3> QED
      BY <2>1, <3>2
  <2> QED
    BY <1>1, <1>3, <2>1, <2>4, <2>5, <2>6 DEF StatusStep
<1> QED
  BY <1>1, <1>3, <1>4 DEF StatusStep

-----------------------------------------------------------------------------
(* The invariant and what follows from it.                                 *)

\* The initial states satisfy the invariant.
LEMMA SchedulerInvInit == Init => SchedulerInv
<1> SUFFICES ASSUME Init PROVE SchedulerInv
  OBVIOUS
<1>1. AdmissionTypeOK
  BY AdmissionInvInit DEF Init, AdmissionInv
<1>2. store \in [Agents -> Object]
  <2>1. [paused : BOOLEAN, runNow : {FALSE}, lastRun : {None}] \subseteq Object
    BY DEF Object
  <2> QED
    BY <2>1 DEF Init
<1>3. TypeOK
  BY <1>1, <1>2, IdleTypes, SchedulerConstants DEF TypeOK, Init
<1>4. CacheExact
  BY DEF Init, CacheExact, Fetched
<1>5. AnnotationExact /\ UpdatingRunsExecute /\ StampsInOrder
  BY DEF Init, AnnotationExact, UpdatingRunsExecute, StampsInOrder, ReconcileIdle, StatusIdle
<1> QED
  BY <1>3, <1>4, <1>5 DEF SchedulerInv

\* The invariant holds in every reachable state; with it, the types.
THEOREM SchedulerInvariant == Spec => []SchedulerInv
<1>1. SchedulerInv /\ [Next]_vars => SchedulerInv'
  BY SchedulerTypeStep, CacheExactStep, AnnotationExactStep, StatusInvStep DEF SchedulerInv
<1> QED
  BY <1>1, SchedulerInvInit, PTL DEF Spec

\* The run-now annotation starts at most one manual run each time it is set:
\* a manual run starts only in the step that removes the stored annotation.
THEOREM RunNowStartsOnce == Spec => RunNowAtMostOnce
<1>1. SchedulerInv /\ [Next]_vars =>
        [\A a \in Agents : manual'[a] > manual[a] =>
            store[a].runNow /\ ~store'[a].runNow]_vars
  <2> SUFFICES ASSUME SchedulerInv, Next, NEW a \in Agents, manual'[a] > manual[a]
               PROVE  store[a].runNow /\ ~store'[a].runNow
    OBVIOUS
  <2>1. manual[a] \in Nat /\ manual'[a] # manual[a]
    BY SchedulerConstants DEF SchedulerInv, TypeOK
  <2>2. ~(UNCHANGED manual)
    BY <2>1
  <2>3. ~SchedulingStep /\ \A r \in RunIds : ~RunGoroutine(r)
    BY <2>2 DEF SchedulingStep, Tick, HandleWebhookTrigger, TriggerRun, EvaluateAgentSkip,
                EvaluateAgentNotDue, EvaluateAgentDue, RunGoroutine, RunExecuteReturns,
                RunRefetch, RunUpdateStatus, RunUpdateLost, RunEnds, schedulerVars, manualVars
  <2>4. ~OutsideStep
    <3>1. ~ProcessRestart
      BY <2>1 DEF ProcessRestart
    <3> QED
      BY <2>2, <3>1 DEF OutsideStep, ClockAdvance, OtherWrite, CacheSync, WebhookArrives,
                        schedulerVars, manualVars
  <2>5. PICK b \in Agents : ReconcileStep(b) \/ ManualRunEnds(b)
    BY <2>3, <2>4 DEF Next
  <2>6. ~ManualRunEnds(b)
    BY <2>1 DEF ManualRunEnds, SchedulerInv, TypeOK
  <2>7. ReconcileRunNow(b)
    BY <2>2, <2>5, <2>6 DEF ReconcileStep, ReconcileGet, ReconcileStatus, ReconcileFails
  <2>8. b = a
    BY <2>1, <2>7 DEF ReconcileRunNow, SchedulerInv, TypeOK
  <2>9. store[a].runNow
    BY <2>7, <2>8 DEF ReconcileRunNow, SchedulerInv, AnnotationExact
  <2>10. ~store'[a].runNow
    BY <2>7, <2>8 DEF ReconcileRunNow, SchedulerInv, TypeOK, Object
  <2> QED
    BY <2>9, <2>10
<1> QED
  BY <1>1, SchedulerInvariant, PTL DEF Spec, RunNowAtMostOnce

\* lastRunTime never moves back, whichever runs of the agent finish together
\* and from whatever copies they write.
THEOREM LastRunIsMonotone == Spec => LastRunMonotone
<1>1. SchedulerInv /\ [Next]_vars =>
        [ClockAdvance \/ \A a \in Agents : store[a].lastRun # None =>
            store'[a].lastRun # None /\ store'[a].lastRun <= store[a].lastRun]_vars
  <2> SUFFICES ASSUME SchedulerInv, Next, ~ClockAdvance,
                      NEW a \in Agents, store[a].lastRun # None
               PROVE  store'[a].lastRun # None /\ store'[a].lastRun <= store[a].lastRun
    OBVIOUS
  <2>1. store[a] \in Object /\ store[a].lastRun \in Age /\ Age \subseteq Nat
    BY SchedulerConstants DEF SchedulerInv, TypeOK, Object, Age
  <2>2. CASE store'[a].lastRun = store[a].lastRun
    <3>1. store'[a].lastRun \in Nat /\ store'[a].lastRun # None
      BY <2>1, <2>2
    <3>2. store'[a].lastRun <= store[a].lastRun
      BY <2>2, <3>1
    <3> QED
      BY <3>1, <3>2
  <2>3. ASSUME NEW r \in RunIds, RunUpdateStatus(r), runs[r].agent = a
        PROVE  store'[a].lastRun # None /\ store'[a].lastRun <= store[a].lastRun
    <3>1. store'[a].lastRun = status[r].stamp
      BY <2>1, <2>3 DEF RunUpdateStatus, SchedulerInv, TypeOK, Object
    <3>2. status[r].stamp <= store[a].lastRun
      BY <2>3 DEF RunUpdateStatus, SchedulerInv, StampsInOrder
    <3>3. status[r].stamp \in Age
      BY DEF SchedulerInv, TypeOK, StatusRec
    <3> QED
      BY <3>1, <3>2, <3>3, OlderAges
  <2>4. ASSUME NEW r \in RunIds, RunGoroutine(r)
        PROVE  store'[a].lastRun # None /\ store'[a].lastRun <= store[a].lastRun
    <3>1. CASE RunUpdateStatus(r) /\ runs[r].agent # a
      BY <2>2, <3>1 DEF RunUpdateStatus, SchedulerInv, TypeOK
    <3> QED
      BY <2>2, <2>3, <2>4, <3>1 DEF RunGoroutine, RunExecuteReturns, RunRefetch,
                                    RunUpdateLost, RunEnds, schedulerVars, objectVars
  <2>5. CASE SchedulingStep
    BY <2>2, <2>5 DEF SchedulingStep, Tick, HandleWebhookTrigger, TriggerRun,
                      EvaluateAgentSkip, EvaluateAgentNotDue, EvaluateAgentDue,
                      schedulerVars, objectVars
  <2>6. ASSUME NEW b \in Agents, ReconcileStep(b) \/ ManualRunEnds(b)
        PROVE  store'[a].lastRun = store[a].lastRun
    <3>1. CASE ReconcileRunNow(b)
      BY <2>1, <3>1 DEF ReconcileRunNow, SchedulerInv, TypeOK, Object
    <3> QED
      BY <2>6, <3>1 DEF ReconcileStep, ReconcileGet, ReconcileStatus, ReconcileFails,
                        ManualRunEnds, objectVars
  <2>7. CASE OutsideStep
    <3>1. ASSUME NEW b \in Agents, OtherWrite(b)
          PROVE  store'[a].lastRun = store[a].lastRun
      <4>1. CASE store' = [store EXCEPT ![b].paused = ~@]
        BY <2>1, <4>1 DEF SchedulerInv, TypeOK, Object
      <4>2. CASE store' = [store EXCEPT ![b].runNow = TRUE]
        BY <2>1, <4>2 DEF SchedulerInv, TypeOK, Object
      <4> QED
        BY <3>1, <4>1, <4>2 DEF OtherWrite
    <3> QED
      BY <2>2, <2>7, <3>1 DEF OutsideStep, ProcessRestart, CacheSync, WebhookArrives,
                              schedulerVars, objectVars
  <2> QED
    BY <2>2, <2>4, <2>5, <2>6, <2>7 DEF Next
<1> QED
  BY <1>1, SchedulerInvariant, PTL DEF Spec, LastRunMonotone

=============================================================================
