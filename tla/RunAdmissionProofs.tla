------------------------- MODULE RunAdmissionProofs -------------------------
(***************************************************************************)
(* Run admission is correct for every set of agents and every limit: the   *)
(* inductive invariant AdmissionInv, and what follows from it.             *)
(***************************************************************************)
EXTENDS RunAdmission, CountingProofs

-----------------------------------------------------------------------------
(* Starts of runs in their order, oldest first.                            *)

OldestFirst(starts) ==
    \A i, j \in DOMAIN starts : i <= j => starts[i].age >= starts[j].age

\* The first d starts, and no others, are older than an hour.
OldUpTo(starts, d) ==
    /\ d \in 0 .. Len(starts)
    /\ \A i \in 1 .. d : starts[i].age > Hour
    /\ \A i \in (d + 1) .. Len(starts) : starts[i].age <= Hour

\* A start has an agent and an age.
LEMMA StartTypes ==
    ASSUME NEW starts \in Seq(StartRecord)
    PROVE  /\ Len(starts) \in Nat /\ DOMAIN starts = 1 .. Len(starts)
           /\ \A i \in 1 .. Len(starts) : /\ starts[i] \in StartRecord
                                          /\ starts[i].agentKey \in Agents
                                          /\ starts[i].age \in Nat
                                          /\ starts[i].age <= Hour + 1
<1>1. Len(starts) \in Nat /\ DOMAIN starts = 1 .. Len(starts)
  OBVIOUS
<1>2. ASSUME NEW i \in 1 .. Len(starts)
      PROVE  starts[i] \in StartRecord
  BY <1>1
<1> QED
  BY <1>1, <1>2, AdmissionConstants DEF StartRecord

\* A start is its agent and its age.
LEMMA SameStart ==
    ASSUME NEW x \in StartRecord, NEW y \in StartRecord,
           x.agentKey = y.agentKey, x.age = y.age
    PROVE  x = y
  BY DEF StartRecord

\* Starts in their order have such a place, and LastHour cuts there.
LEMMA LastHourCuts ==
    ASSUME NEW starts \in Seq(StartRecord)
    PROVE  /\ OldestFirst(starts) => \E d \in 0 .. Len(starts) : OldUpTo(starts, d)
           /\ \A d \in 0 .. Len(starts) : OldUpTo(starts, d) =>
                LastHour(starts) = SubSeq(starts, d + 1, Len(starts))
<1> DEFINE old == {i \in DOMAIN starts : starts[i].age > Hour}
           n == Len(starts)
<1>1. /\ n \in Nat /\ DOMAIN starts = 1 .. n /\ Hour \in Nat
      /\ \A i \in 1 .. n : starts[i].age \in Nat
  BY StartTypes, AdmissionConstants
<1> HIDE DEF n
<1>2. ASSUME OldestFirst(starts)
      PROVE  \E d \in 0 .. n : OldUpTo(starts, d)
  <2>1. old \subseteq 1 .. n
    BY <1>1
  <2>2. \A i \in old : \A j \in 1 .. i : j \in old
    <3>1. ASSUME NEW i \in old, NEW j \in 1 .. i
          PROVE  j \in old
      <4>1. i \in 1 .. n /\ j \in 1 .. n /\ starts[i].age > Hour
        BY <1>1
      <4>2. starts[j].age >= starts[i].age
        BY <1>1, <1>2, <4>1 DEF OldestFirst
      <4> QED
        BY <1>1, <4>1, <4>2
    <3> QED
      BY <3>1
  <2>3. PICK d \in 0 .. n : old = 1 .. d
    <3> HIDE DEF old
    <3> QED
      BY <1>1, <2>1, <2>2, InitialSegment
  <2>4. ASSUME NEW i \in 1 .. n
        PROVE  starts[i].age > Hour <=> i <= d
    <3>1. i \in old <=> i <= d
      BY <1>1, <2>3
    <3> QED
      BY <1>1, <3>1
  <2>5. OldUpTo(starts, d)
    BY <1>1, <2>4 DEF OldUpTo, n
  <2> QED
    BY <2>5
<1>3. ASSUME NEW d \in 0 .. n, OldUpTo(starts, d)
      PROVE  LastHour(starts) = SubSeq(starts, d + 1, n)
  <2>1. ASSUME NEW i \in 1 .. n
        PROVE  starts[i].age > Hour <=> i <= d
    <3>1. CASE i <= d
      BY <1>1, <1>3, <3>1 DEF OldUpTo
    <3>2. CASE ~(i <= d)
      <4>1. i \in (d + 1) .. n
        BY <1>1, <3>2
      <4> QED
        BY <1>1, <1>3, <3>2, <4>1 DEF OldUpTo, n
    <3> QED
      BY <3>1, <3>2
  <2>2. old = 1 .. d
    BY <1>1, <2>1
  <2>3. Cardinality(1 .. d) = d
    BY <1>1, FS_Interval
  <2> QED
    BY <2>2, <2>3 DEF LastHour, n
<1> QED
  BY <1>2, <1>3 DEF n

\* The clock changes ages only, and not their order.
LEMMA OlderStarts ==
    ASSUME NEW starts \in Seq(StartRecord)
    PROVE  /\ Older(starts) \in Seq(StartRecord)
           /\ Len(Older(starts)) = Len(starts)
           /\ \A i \in 1 .. Len(starts) :
                /\ Older(starts)[i].agentKey = starts[i].agentKey
                /\ Older(starts)[i].age = IF starts[i].age > Hour THEN starts[i].age
                                          ELSE starts[i].age + 1
           /\ OldestFirst(starts) => OldestFirst(Older(starts))
<1> DEFINE older(i) == [agentKey |-> starts[i].agentKey,
                        age |-> IF starts[i].age > Hour
                                THEN starts[i].age ELSE starts[i].age + 1]
           n == Len(starts)
<1>1. /\ n \in Nat /\ DOMAIN starts = 1 .. n /\ Hour \in Nat
      /\ \A i \in 1 .. n : /\ starts[i].agentKey \in Agents
                           /\ starts[i].age \in Nat /\ starts[i].age <= Hour + 1
  BY StartTypes, AdmissionConstants
<1> HIDE DEF n
<1>2. ASSUME NEW i \in 1 .. n
      PROVE  older(i) \in StartRecord
  BY <1>1 DEF StartRecord
<1>3. Older(starts) = [i \in 1 .. n |-> older(i)]
  BY <1>1 DEF Older
<1>4. \A i \in 1 .. n :
        /\ older(i).agentKey = starts[i].agentKey
        /\ older(i).age = IF starts[i].age > Hour THEN starts[i].age ELSE starts[i].age + 1
  OBVIOUS
<1> HIDE DEF older
<1>5. Older(starts) \in Seq(StartRecord) /\ Len(Older(starts)) = n /\ DOMAIN Older(starts) = 1 .. n
  BY <1>1, <1>2, <1>3
<1>6. \A i \in 1 .. n :
        /\ Older(starts)[i].agentKey = starts[i].agentKey
        /\ Older(starts)[i].age = IF starts[i].age > Hour THEN starts[i].age
                                  ELSE starts[i].age + 1
  BY <1>3, <1>4
<1>7. ASSUME OldestFirst(starts), NEW i \in 1 .. n, NEW j \in 1 .. n, i <= j
      PROVE  Older(starts)[i].age >= Older(starts)[j].age
  <2>1. starts[i].age >= starts[j].age
    BY <1>1, <1>7 DEF OldestFirst
  <2> QED
    BY <1>1, <1>6, <2>1
<1> QED
  BY <1>5, <1>6, <1>7 DEF OldestFirst, n

\* How many starts of an agent there are, as a count.
LEMMA StartsOfCount ==
    ASSUME NEW starts \in Seq(StartRecord), NEW a
    PROVE  /\ StartsOf(starts, a) = CountIn(starts, {rec \in StartRecord : rec.agentKey = a})
           /\ IsFiniteSet({i \in DOMAIN starts : starts[i].agentKey = a})
           /\ StartsOf(starts, a) \in Nat
<1>1. Len(starts) \in Nat /\ DOMAIN starts = 1 .. Len(starts)
  OBVIOUS
<1>2. IsFiniteSet(DOMAIN starts)
  BY <1>1, FS_Interval
<1>3. IsFiniteSet({i \in DOMAIN starts : starts[i].agentKey = a})
  BY <1>2, FS_Subset
<1>4. {i \in DOMAIN starts : starts[i].agentKey = a}
        = {i \in DOMAIN starts : starts[i] \in {rec \in StartRecord : rec.agentKey = a}}
  BY <1>1, StartTypes
<1> QED
  BY <1>3, <1>4, FS_CardinalityType DEF StartsOf, CountIn

\* Without its first d starts, a sequence of starts is one still, with no
\* more starts of any agent.
LEMMA LaterStarts ==
    ASSUME NEW starts \in Seq(StartRecord), NEW d \in 0 .. Len(starts)
    PROVE  LET later == SubSeq(starts, d + 1, Len(starts)) IN
           /\ later \in Seq(StartRecord) /\ Len(later) = Len(starts) - d
           /\ \A i \in 1 .. (Len(starts) - d) : later[i] = starts[i + d]
           /\ \A a : StartsOf(later, a) <= StartsOf(starts, a)
           /\ OldestFirst(starts) => OldestFirst(later)
<1> DEFINE later == SubSeq(starts, d + 1, Len(starts))
           n == Len(starts)
<1>1. n \in Nat /\ d \in 0 .. n /\ DOMAIN starts = 1 .. n
  OBVIOUS
<1>2. /\ later \in Seq(StartRecord) /\ Len(later) = n - d /\ DOMAIN later = 1 .. (n - d)
      /\ \A i \in 1 .. (n - d) : later[i] = starts[i + d]
  OBVIOUS
<1> HIDE DEF later, n
<1>3. ASSUME NEW a
      PROVE  StartsOf(later, a) <= StartsOf(starts, a)
  <2> DEFINE A == {i \in DOMAIN later : later[i].agentKey = a}
             B == {i \in DOMAIN starts : starts[i].agentKey = a}
             f == [i \in A |-> i + d]
  <2>1. IsFiniteSet(B)
    BY StartsOfCount
  <2>2. f \in Injection(A, B)
    <3>1. \A i \in A : i + d \in B /\ i \in Nat
      <4> SUFFICES ASSUME NEW i \in 1 .. (n - d), later[i].agentKey = a
                   PROVE  i + d \in B /\ i \in Nat
        BY <1>2
      <4>1. i \in Nat /\ i + d \in 1 .. n
        BY <1>1
      <4>2. starts[i + d].agentKey = a
        BY <1>2
      <4> QED
        BY <1>1, <4>1, <4>2
    <3> HIDE DEF A, B
    <3>2. f \in [A -> B]
      BY <3>1
    <3>3. \A i, j \in A : f[i] = f[j] => i = j
      BY <1>1, <3>1
    <3> QED
      BY <3>2, <3>3 DEF Injection, IsInjective
  <2> HIDE DEF A, B, f
  <2>3. Cardinality(A) <= Cardinality(B)
    BY <2>1, <2>2, FS_Injection
  <2> QED
    BY <2>3 DEF StartsOf, A, B
<1>4. ASSUME OldestFirst(starts), NEW i \in 1 .. (n - d), NEW j \in 1 .. (n - d), i <= j
      PROVE  later[i].age >= later[j].age
  <2>1. i + d \in 1 .. n /\ j + d \in 1 .. n /\ i + d <= j + d
    BY <1>1, <1>4
  <2> QED
    BY <1>1, <1>2, <1>4, <2>1 DEF OldestFirst
<1> QED
  BY <1>2, <1>3, <1>4 DEF OldestFirst, later, n

\* The starts of the last hour are starts.
LEMMA LastHourType ==
    ASSUME NEW starts \in Seq(StartRecord)
    PROVE  LastHour(starts) \in Seq(StartRecord)
<1> DEFINE old == {i \in DOMAIN starts : starts[i].age > Hour}
<1>1. Len(starts) \in Nat /\ DOMAIN starts = 1..Len(starts)
  OBVIOUS
<1>2. IsFiniteSet(1..Len(starts)) /\ Cardinality(1..Len(starts)) = Len(starts)
  BY <1>1, FS_Interval
<1>3. old \in SUBSET (1..Len(starts))
  BY <1>1
<1> HIDE DEF old
<1>4. Cardinality(old) \in 0 .. Len(starts)
  <2>1. IsFiniteSet(old) /\ Cardinality(old) <= Cardinality(1..Len(starts))
    BY <1>2, <1>3, FS_Subset
  <2>2. Cardinality(old) \in Nat
    BY <2>1, FS_CardinalityType
  <2> QED
    BY <1>1, <1>2, <2>1, <2>2
<1>5. SubSeq(starts, Cardinality(old) + 1, Len(starts)) \in Seq(StartRecord)
  BY <1>4, LaterStarts
<1> QED
  BY <1>5 DEF LastHour, old

\* pruneHistory returns a sequence of start records again.
LEMMA PrunedHistoryType ==
    ASSUME history \in Seq(StartRecord)
    PROVE  PrunedHistory \in Seq(StartRecord)
<1> DEFINE dropped == {i \in DOMAIN history :
                         \A j \in 1..i : ~InWindow(history[j])}
<1>1. Len(history) \in Nat /\ DOMAIN history = 1..Len(history)
  OBVIOUS
<1>2. IsFiniteSet(1..Len(history)) /\ Cardinality(1..Len(history)) = Len(history)
  BY <1>1, FS_Interval
<1>3. dropped \in SUBSET (1..Len(history))
  BY <1>1
<1>4. /\ Cardinality(dropped) \in Nat
      /\ Cardinality(dropped) <= Len(history)
  BY <1>2, <1>3, FS_Subset, FS_CardinalityType
<1> HIDE DEF dropped
<1>5. SubSeq(history, Cardinality(dropped) + 1, Len(history)) \in Seq(StartRecord)
  BY <1>1, <1>4
<1> QED
  BY <1>5 DEF PrunedHistory, dropped

\* Inside triggerRun the scheduling goroutine has an agent and a trigger.
LEMMA InTriggerRun ==
    ASSUME sched \in Sched, sched.pc \notin {"select", "loop"}
    PROVE  /\ sched.agent \in Agents
           /\ sched.trigger \in {"scheduled", "webhook"}
  BY DEF Sched

\* The steps of triggerRun leave sched in its type.
LEMMA GoToType ==
    ASSUME sched \in Sched, sched.pc \notin {"select", "loop"},
           NEW pc \in TriggerPC, GoTo(pc)
    PROVE  sched' \in Sched
  BY InTriggerRun DEF Sched, GoTo

\* So does its return, to the tick or to the select.
LEMMA ReturnType == ASSUME Return PROVE sched' \in Sched
  BY DEF Return, Sched, AtLoop, AtSelect

\* RecordStart keeps the counters, the history and the recent starts in
\* their types.
LEMMA RecordStartType ==
    ASSUME AdmissionTypeOK, NEW a \in Agents, RecordStart(a)
    PROVE  /\ concurrent' \in [Agents -> Nat]
           /\ totalConc' \in Nat
           /\ history' \in Seq(StartRecord)
           /\ recent' \in Seq(StartRecord)
<1> USE AdmissionConstants DEF AdmissionTypeOK, RecordStart
<1>1. [agentKey |-> a, age |-> 0] \in StartRecord
  BY DEF StartRecord
<1>2. history' \in Seq(StartRecord)
  BY <1>1
<1>3. concurrent' \in [Agents -> Nat] /\ totalConc' \in Nat
  OBVIOUS
<1>4. recent' \in Seq(StartRecord)
  BY <1>1
<1> QED
  BY <1>2, <1>3, <1>4

\* Every step of run admission keeps the variables within their types.
LEMMA AdmissionTypeStep ==
    ASSUME AdmissionTypeOK, [AdmissionNext]_admissionVars
    PROVE  AdmissionTypeOK'
<1> USE AdmissionConstants
<1> USE DEF AdmissionTypeOK, limiterVars
<1>1. CASE SchedulerStep
  <2>1. CASE TickListFails
    BY <2>1 DEF TickListFails, CleanStale
  <2>2. CASE TickDone
    BY <2>2 DEF TickDone, AtSelect, Sched
  <2>3. CASE TakeTrigger
    <3>1. triggers # <<>> /\ triggers' = Tail(triggers)
      BY <2>3 DEF TakeTrigger, WebhookDrop, WebhookTrigger
    <3>2. triggers' \in Seq(Agents) /\ Head(triggers) \in Agents
      BY <3>1
    <3>3. sched' \in Sched
      BY <2>3, <3>2 DEF TakeTrigger, WebhookDrop, WebhookTrigger, Sched, TriggerPC
    <3> QED
      BY <2>3, <3>2, <3>3 DEF TakeTrigger, WebhookDrop, WebhookTrigger
  <2>4. ASSUME NEW listed \in SUBSET Agents, TickList(listed)
        PROVE  AdmissionTypeOK'
    BY <2>4 DEF TickList, CleanStale, AtLoop, Sched
  <2>5. ASSUME NEW a \in Agents, EvaluateSkip(a) \/ EvaluateDue(a)
        PROVE  AdmissionTypeOK'
    BY <2>5 DEF EvaluateSkip, EvaluateDue, Sched, TriggerPC
  <2>6. CASE TriggerAllow
    <3>1. sched' \in Sched
      BY <2>6, GoToType, ReturnType DEF TriggerAllow, TriggerPC
    <3> QED
      BY <2>6, <3>1, PrunedHistoryType DEF TriggerAllow
  <2>7. CASE TriggerTryStart
    <3>1. sched' \in Sched
      BY <2>7, GoToType, ReturnType DEF TriggerTryStart, TriggerPC
    <3>2. inflight' \in [Agents -> (0..(StaleAge + 1)) \cup {None}]
      <4>1. 0 \in 0..(StaleAge + 1) /\ sched.agent \in Agents
        BY <2>7, InTriggerRun DEF TriggerTryStart
      <4>2. inflight' = inflight \/ inflight' = [inflight EXCEPT ![sched.agent] = 0]
        BY <2>7 DEF TriggerTryStart
      <4> QED
        BY <4>1, <4>2
    <3> QED
      BY <2>7, <3>1, <3>2 DEF TriggerTryStart
  <2>8. CASE TriggerRecordStart
    <3>1. sched' \in Sched
      BY <2>8, GoToType DEF TriggerRecordStart, TriggerPC
    <3>2. sched.agent \in Agents
      BY <2>8, InTriggerRun DEF TriggerRecordStart
    <3> QED
      BY <2>8, <3>1, <3>2, RecordStartType DEF TriggerRecordStart
  <2>9. CASE TriggerConfigFails
    <3>1. sched.agent \in Agents
      BY <2>9, InTriggerRun DEF TriggerConfigFails
    <3>2. inflight' \in [Agents -> (0..(StaleAge + 1)) \cup {None}]
      BY <2>9, <3>1 DEF TriggerConfigFails, Complete
    <3>3. concurrent' \in [Agents -> Nat] /\ totalConc' \in Nat
      BY <2>9, <3>1 DEF TriggerConfigFails, RecordComplete
    <3> QED
      BY <2>9, <3>2, <3>3, ReturnType DEF TriggerConfigFails, RecordComplete
  <2>10. ASSUME NEW r \in RunIds, TriggerSpawn(r)
         PROVE  AdmissionTypeOK'
    BY <2>10, ReturnType, InTriggerRun DEF TriggerSpawn, Run
  <2> QED
    BY <1>1, <2>1, <2>2, <2>3, <2>4, <2>5, <2>6, <2>7, <2>8, <2>9, <2>10
       DEF SchedulerStep
<1>2. ASSUME NEW r \in RunIds, RunStep(r)
      PROVE  AdmissionTypeOK'
  <2>1. CASE RunRecordComplete(r)
    BY <2>1 DEF RunRecordComplete, RecordComplete, Run, FreeRun
  <2>2. CASE RunComplete(r)
    BY <2>2 DEF RunComplete, Complete
  <2> QED
    BY <1>2, <2>1, <2>2 DEF RunStep
<1>3. CASE Environment
  <2>1. CASE Advance
    <3>1. history' \in Seq(StartRecord)
      BY <2>1, OlderStarts DEF Advance
    <3>2. recent' \in Seq(StartRecord)
      BY <2>1, OlderStarts, LastHourType DEF Advance
    <3>3. inflight' \in [Agents -> (0..(StaleAge + 1)) \cup {None}]
      <4>1. ASSUME NEW a \in Agents, inflight[a] # None, inflight[a] # StaleAge + 1
            PROVE  inflight[a] + 1 \in 0..(StaleAge + 1)
        BY <4>1
      <4> QED
        BY <2>1, <4>1 DEF Advance
    <3> QED
      BY <2>1, <3>1, <3>2, <3>3 DEF Advance
  <2>2. CASE Restart
    BY <2>2 DEF Restart, AtSelect, Sched
  <2>3. ASSUME NEW a \in Agents, WebhookSend(a)
        PROVE  AdmissionTypeOK'
    BY <2>3 DEF WebhookSend
  <2> QED
    BY <1>3, <2>1, <2>2, <2>3 DEF Environment
<1>4. CASE UNCHANGED admissionVars
  BY <1>4 DEF admissionVars
<1> QED
  BY <1>1, <1>2, <1>3, <1>4 DEF AdmissionNext

\* The variables of run admission always have their types.
THEOREM AdmissionTypeCorrect == AdmissionSpec => []AdmissionTypeOK
<1>1. AdmissionInit => AdmissionTypeOK
  BY AdmissionConstants
     DEF AdmissionInit, AdmissionTypeOK, Sched, AtSelect, Run, FreeRun
<1> QED
  BY <1>1, AdmissionTypeStep, PTL DEF AdmissionSpec

-----------------------------------------------------------------------------
(* Slots.                                                                  *)

\* The sets of slot holders are finite, so they have a size.
LEMMA HoldingFinite ==
    /\ \A a \in Agents : IsFiniteSet(Holding(a)) /\ Cardinality(Holding(a)) \in Nat
    /\ IsFiniteSet(AllHolding) /\ Cardinality(AllHolding) \in Nat
<1>1. /\ AllHolding \in SUBSET RunIds
      /\ \A a \in Agents : Holding(a) \in SUBSET RunIds
  BY DEF Holding, AllHolding
<1> QED
  BY <1>1, AdmissionConstants, FS_Subset, FS_CardinalityType

\* A step that leaves the runs and the config section alone changes neither
\* side of LimiterExact if it leaves the counters alone.
LEMMA SlotsUnchanged ==
    ASSUME LimiterExact, UNCHANGED <<runs, concurrent, totalConc>>,
           sched.pc # "config", sched'.pc # "config"
    PROVE  LimiterExact'
  BY DEF LimiterExact, Holding, AllHolding, Starting, AnyStarting

\* RecordStart counts the run that is about to start.
LEMMA RecordStartExact ==
    ASSUME AdmissionTypeOK, LimiterExact, TriggerRecordStart
    PROVE  LimiterExact'
<1>1. sched.agent \in Agents
  BY InTriggerRun DEF AdmissionTypeOK, TriggerRecordStart
<1>2. /\ AllHolding' = AllHolding
      /\ \A a \in Agents : Holding(a)' = Holding(a)
  BY DEF TriggerRecordStart, Holding, AllHolding
<1>3. /\ AnyStarting = 0 /\ AnyStarting' = 1
      /\ \A a \in Agents : /\ Starting(a) = 0
                           /\ Starting(a)' = IF a = sched.agent THEN 1 ELSE 0
  BY DEF TriggerRecordStart, GoTo, Starting, AnyStarting
<1>4. totalConc' = Cardinality(AllHolding)' + AnyStarting'
  BY <1>2, <1>3, HoldingFinite DEF LimiterExact, TriggerRecordStart, RecordStart
<1>5. ASSUME NEW a \in Agents
      PROVE  concurrent'[a] = Cardinality(Holding(a))' + Starting(a)'
  BY <1>1, <1>2, <1>3, HoldingFinite
     DEF AdmissionTypeOK, LimiterExact, TriggerRecordStart, RecordStart
<1> QED
  BY <1>4, <1>5 DEF LimiterExact

\* A failed RunConfigFactory gives the slot back.
LEMMA ConfigFailsExact ==
    ASSUME AdmissionTypeOK, LimiterExact, TriggerConfigFails
    PROVE  LimiterExact'
<1>1. sched.agent \in Agents
  BY InTriggerRun DEF AdmissionTypeOK, TriggerConfigFails
<1>2. /\ AllHolding' = AllHolding
      /\ \A a \in Agents : Holding(a)' = Holding(a)
  BY DEF TriggerConfigFails, Holding, AllHolding
<1>3. sched'.pc # "config"
  BY DEF TriggerConfigFails, Return, AtLoop, AtSelect
<1>4. /\ AnyStarting = 1 /\ AnyStarting' = 0
      /\ \A a \in Agents : /\ Starting(a) = IF a = sched.agent THEN 1 ELSE 0
                           /\ Starting(a)' = 0
  BY <1>3 DEF TriggerConfigFails, Starting, AnyStarting
<1>5. totalConc' = Cardinality(AllHolding)' + AnyStarting'
  BY <1>2, <1>4, HoldingFinite DEF LimiterExact, TriggerConfigFails, RecordComplete
<1>6. ASSUME NEW a \in Agents
      PROVE  concurrent'[a] = Cardinality(Holding(a))' + Starting(a)'
  <2>1. Cardinality(Holding(a)) \in Nat /\ concurrent[a] = Cardinality(Holding(a)) + Starting(a)
    BY HoldingFinite DEF LimiterExact
  <2>2. concurrent'[a] = IF a = sched.agent /\ concurrent[a] > 0
                         THEN concurrent[a] - 1 ELSE concurrent[a]
    BY <1>1 DEF AdmissionTypeOK, TriggerConfigFails, RecordComplete
  <2> QED
    BY <1>2, <1>4, <2>1, <2>2
<1> QED
  BY <1>5, <1>6 DEF LimiterExact

\* The run goroutine takes over the slot that RecordStart took.
LEMMA SpawnExact ==
    ASSUME AdmissionTypeOK, LimiterExact, NEW r \in RunIds, TriggerSpawn(r)
    PROVE  LimiterExact'
<1>1. sched.agent \in Agents
  BY InTriggerRun DEF AdmissionTypeOK, TriggerSpawn
<1>2. /\ AllHolding' = AllHolding \cup {r} /\ r \notin AllHolding
      /\ \A a \in Agents :
            /\ r \notin Holding(a)
            /\ Holding(a)' = IF a = sched.agent THEN Holding(a) \cup {r}
                                                ELSE Holding(a)
  BY <1>1 DEF AdmissionTypeOK, TriggerSpawn, Holding, AllHolding, FreeRun
<1>3. sched'.pc # "config"
  BY DEF TriggerSpawn, Return, AtLoop, AtSelect
<1>4. /\ AnyStarting = 1 /\ AnyStarting' = 0
      /\ \A a \in Agents : /\ Starting(a) = IF a = sched.agent THEN 1 ELSE 0
                           /\ Starting(a)' = 0
  BY <1>3 DEF TriggerSpawn, Starting, AnyStarting
<1>5. Cardinality(AllHolding)' = Cardinality(AllHolding) + 1
  BY <1>2, HoldingFinite, FS_AddElement
<1>6. ASSUME NEW a \in Agents
      PROVE  Cardinality(Holding(a))' = Cardinality(Holding(a)) + Starting(a)
  BY <1>2, <1>4, HoldingFinite, FS_AddElement
<1> QED
  BY <1>4, <1>5, <1>6, HoldingFinite DEF LimiterExact, TriggerSpawn, limiterVars

\* The deferred RecordComplete of a run frees exactly the slot it held.
LEMMA RecordCompleteExact ==
    ASSUME AdmissionTypeOK, LimiterExact, NEW r \in RunIds, RunRecordComplete(r)
    PROVE  LimiterExact'
<1>1. runs[r].agent \in Agents
  BY DEF AdmissionTypeOK, RunRecordComplete, Run, FreeRun
<1>2. /\ AllHolding' = AllHolding \ {r} /\ r \in AllHolding
      /\ \A a \in Agents :
            /\ r \in Holding(a) <=> a = runs[r].agent
            /\ Holding(a)' = IF a = runs[r].agent THEN Holding(a) \ {r}
                                                  ELSE Holding(a)
  BY <1>1 DEF AdmissionTypeOK, RunRecordComplete, Holding, AllHolding
<1>3. /\ AnyStarting' = AnyStarting /\ AnyStarting \in {0, 1}
      /\ \A a \in Agents : Starting(a)' = Starting(a) /\ Starting(a) \in {0, 1}
  BY DEF RunRecordComplete, Starting, AnyStarting
<1>4. Cardinality(AllHolding)' = Cardinality(AllHolding) - 1
  BY <1>2, HoldingFinite, FS_RemoveElement
<1>5. ASSUME NEW a \in Agents
      PROVE  Cardinality(Holding(a))' = IF a = runs[r].agent
                                        THEN Cardinality(Holding(a)) - 1
                                        ELSE Cardinality(Holding(a))
  BY <1>2, HoldingFinite, FS_RemoveElement
<1>6. /\ Cardinality(AllHolding)' \in Nat
      /\ \A a \in Agents : Cardinality(Holding(a))' \in Nat
  <2>1. /\ AllHolding' \in SUBSET RunIds
        /\ \A a \in Agents : Holding(a)' \in SUBSET RunIds
    BY DEF Holding, AllHolding
  <2> QED
    BY <2>1, AdmissionConstants, FS_Subset, FS_CardinalityType
<1>7. totalConc' = Cardinality(AllHolding)' + AnyStarting'
  BY <1>3, <1>4, <1>6, HoldingFinite
     DEF LimiterExact, RunRecordComplete, RecordComplete
<1>8. ASSUME NEW a \in Agents
      PROVE  concurrent'[a] = Cardinality(Holding(a))' + Starting(a)'
  <2>1. /\ concurrent[a] = Cardinality(Holding(a)) + Starting(a)
        /\ Cardinality(Holding(a)) \in Nat /\ Cardinality(Holding(a))' \in Nat
        /\ Starting(a)' = Starting(a) /\ Starting(a) \in {0, 1}
    BY <1>3, <1>6, HoldingFinite DEF LimiterExact
  <2>2. concurrent'[a] = IF a = runs[r].agent /\ concurrent[a] > 0
                         THEN concurrent[a] - 1 ELSE concurrent[a]
    BY <1>1 DEF AdmissionTypeOK, RunRecordComplete, RecordComplete
  <2>3. CASE a = runs[r].agent
    BY <1>5, <2>1, <2>2, <2>3
  <2>4. CASE a # runs[r].agent
    BY <1>5, <2>1, <2>2, <2>4
  <2> QED
    BY <2>3, <2>4
<1> QED
  BY <1>7, <1>8 DEF LimiterExact

\* A run that only has the tracker left to tell holds no slot.
LEMMA RunCompleteExact ==
    ASSUME AdmissionTypeOK, LimiterExact, NEW r \in RunIds, RunComplete(r)
    PROVE  LimiterExact'
<1>1. /\ AllHolding' = AllHolding
      /\ \A a \in Agents : Holding(a)' = Holding(a)
  BY DEF AdmissionTypeOK, RunComplete, Holding, AllHolding, FreeRun
<1>2. /\ AnyStarting' = AnyStarting
      /\ \A a \in Agents : Starting(a)' = Starting(a)
  BY DEF RunComplete, Starting, AnyStarting
<1> QED
  BY <1>1, <1>2 DEF LimiterExact, RunComplete, limiterVars

\* Every step keeps the limiter's counters exact.
LEMMA LimiterExactStep ==
    ASSUME AdmissionTypeOK, LimiterExact, [AdmissionNext]_admissionVars
    PROVE  LimiterExact'
<1>1. CASE SchedulerStep
  <2>1. CASE TickListFails \/ TickDone \/ TakeTrigger
    BY <2>1, SlotsUnchanged
       DEF TickListFails, TickDone, TakeTrigger, WebhookDrop, WebhookTrigger,
           limiterVars, AtSelect
  <2>2. ASSUME NEW listed \in SUBSET Agents, TickList(listed)
        PROVE  LimiterExact'
    BY <2>2, SlotsUnchanged DEF TickList, limiterVars, AtLoop
  <2>3. ASSUME NEW a \in Agents, EvaluateSkip(a) \/ EvaluateDue(a)
        PROVE  LimiterExact'
    BY <2>3, SlotsUnchanged DEF EvaluateSkip, EvaluateDue, limiterVars
  <2>4. CASE TriggerAllow
    BY <2>4, SlotsUnchanged DEF TriggerAllow, GoTo, Return, AtLoop, AtSelect
  <2>5. CASE TriggerTryStart
    BY <2>5, SlotsUnchanged
       DEF TriggerTryStart, limiterVars, GoTo, Return, AtLoop, AtSelect
  <2> QED
    BY <1>1, <2>1, <2>2, <2>3, <2>4, <2>5, RecordStartExact, ConfigFailsExact,
       SpawnExact DEF SchedulerStep
<1>2. ASSUME NEW r \in RunIds, RunStep(r)
      PROVE  LimiterExact'
  BY <1>2, RecordCompleteExact, RunCompleteExact DEF RunStep
<1>3. CASE Environment
  <2>1. CASE Restart
    <3>1. /\ AllHolding' = {}
          /\ \A a \in Agents : Holding(a)' = {}
      BY <2>1 DEF Restart, Holding, AllHolding, FreeRun
    <3>2. /\ AnyStarting' = 0
          /\ \A a \in Agents : Starting(a)' = 0
      BY <2>1 DEF Restart, AtSelect, Starting, AnyStarting
    <3>3. totalConc' = 0 /\ \A a \in Agents : concurrent'[a] = 0
      BY <2>1 DEF Restart
    <3>4. /\ Cardinality(AllHolding)' = 0
          /\ \A a \in Agents : Cardinality(Holding(a))' = 0
      BY <3>1, FS_EmptySet
    <3> QED
      BY <3>2, <3>3, <3>4 DEF LimiterExact
  <2>2. ASSUME UNCHANGED <<runs, sched, concurrent, totalConc>>
        PROVE  LimiterExact'
    BY <2>2 DEF LimiterExact, Holding, AllHolding, Starting, AnyStarting
  <2> QED
    BY <1>3, <2>1, <2>2 DEF Environment, Advance, WebhookSend, limiterVars
<1>4. CASE UNCHANGED admissionVars
  BY <1>4 DEF admissionVars, LimiterExact, Holding, AllHolding, Starting,
              AnyStarting
<1> QED
  BY <1>1, <1>2, <1>3, <1>4 DEF AdmissionNext

-----------------------------------------------------------------------------
(* The bounds.                                                             *)

WithinLimits ==
    /\ \A a \in Agents : concurrent[a] <= MaxConcurrentPerAgent
    /\ totalConc <= MaxConcurrentCluster + BurstAllowance

\* A step that takes no slot and moves the loop only out of triggerRun, or
\* from tryStart to recordStart, keeps the reservation.
LEMMA ReservedKept ==
    ASSUME SlotReserved, WithinLimits, UNCHANGED <<concurrent, totalConc>>,
           \/ sched'.pc \notin {"tryStart", "recordStart"}
           \/ /\ sched.pc \in {"tryStart", "recordStart"}
              /\ sched'.agent = sched.agent /\ sched'.trigger = sched.trigger
    PROVE  SlotReserved' /\ WithinLimits'
  BY DEF SlotReserved, WithinLimits

\* RecordComplete only lowers the counters.
LEMMA SlotFreed ==
    ASSUME AdmissionTypeOK, SlotReserved, WithinLimits,
           NEW a \in Agents, RecordComplete(a),
           sched' = sched \/ sched'.pc \notin {"tryStart", "recordStart"}
    PROVE  SlotReserved' /\ WithinLimits'
<1> USE AdmissionConstants
<1>1. /\ totalConc' \in Nat /\ totalConc \in Nat /\ totalConc' <= totalConc
      /\ \A b \in Agents : /\ concurrent[b] \in Nat /\ concurrent'[b] \in Nat
                           /\ concurrent'[b] <= concurrent[b]
  BY DEF AdmissionTypeOK, RecordComplete
<1>2. WithinLimits'
  BY <1>1 DEF WithinLimits
<1>3. ASSUME sched' = sched, sched.pc \in {"tryStart", "recordStart"}
      PROVE  SlotReserved'
  <2>1. sched.agent \in Agents
    BY <1>3, InTriggerRun DEF AdmissionTypeOK
  <2>2. /\ concurrent'[sched.agent] < MaxConcurrentPerAgent
        /\ totalConc' < MaxConcurrentCluster
                          + (IF sched.trigger = "webhook" THEN BurstAllowance ELSE 0)
    BY <1>1, <1>3, <2>1 DEF SlotReserved
  <2> QED
    BY <1>3, <2>2 DEF SlotReserved
<1> QED
  BY <1>2, <1>3 DEF SlotReserved

\* Every step keeps the counters within the limits.
LEMMA WithinLimitsStep ==
    ASSUME AdmissionTypeOK, SlotReserved, WithinLimits,
           [AdmissionNext]_admissionVars
    PROVE  SlotReserved' /\ WithinLimits'
<1> USE AdmissionConstants
<1>1. CASE SchedulerStep
  <2>1. CASE TickListFails \/ TickDone \/ TakeTrigger
    BY <2>1, ReservedKept
       DEF TickListFails, TickDone, TakeTrigger, WebhookDrop, WebhookTrigger,
           limiterVars, AtSelect
  <2>2. ASSUME NEW listed \in SUBSET Agents, TickList(listed)
        PROVE  SlotReserved' /\ WithinLimits'
    BY <2>2, ReservedKept DEF TickList, limiterVars, AtLoop
  <2>3. ASSUME NEW a \in Agents, EvaluateSkip(a) \/ EvaluateDue(a)
        PROVE  SlotReserved' /\ WithinLimits'
    BY <2>3, ReservedKept DEF EvaluateSkip, EvaluateDue, limiterVars
  <2>4. CASE TriggerAllow
    <3>1. CASE Allow(sched.agent, sched.trigger = "webhook")
      <4>1. /\ sched' = [pc |-> "tryStart", agent |-> sched.agent, trigger |-> sched.trigger]
            /\ concurrent' = concurrent /\ totalConc' = totalConc
        BY <2>4, <3>1 DEF TriggerAllow, GoTo
      <4>2. /\ concurrent[sched.agent] < MaxConcurrentPerAgent
            /\ totalConc < MaxConcurrentCluster
                   + (IF sched.trigger = "webhook" THEN BurstAllowance ELSE 0)
        BY <3>1 DEF Allow
      <4>3. SlotReserved'
        BY <4>1, <4>2 DEF SlotReserved
      <4> QED
        BY <4>1, <4>3 DEF WithinLimits
    <3>2. CASE ~Allow(sched.agent, sched.trigger = "webhook")
      BY <2>4, <3>2, ReservedKept DEF TriggerAllow, Return, AtLoop, AtSelect
    <3> QED
      BY <3>1, <3>2
  <2>5. CASE TriggerTryStart
    BY <2>5, ReservedKept
       DEF TriggerTryStart, limiterVars, GoTo, Return, AtLoop, AtSelect
  <2>6. CASE TriggerRecordStart
    <3>1. sched.agent \in Agents /\ sched'.pc = "config"
      BY <2>6, InTriggerRun DEF AdmissionTypeOK, TriggerRecordStart, GoTo
    <3>2. /\ concurrent[sched.agent] < MaxConcurrentPerAgent
          /\ totalConc < MaxConcurrentCluster + BurstAllowance
      <4>1. /\ concurrent[sched.agent] < MaxConcurrentPerAgent
            /\ totalConc < MaxConcurrentCluster
                   + (IF sched.trigger = "webhook" THEN BurstAllowance ELSE 0)
        BY <2>6 DEF TriggerRecordStart, SlotReserved
      <4>2. totalConc \in Nat
        BY DEF AdmissionTypeOK
      <4> QED
        BY <4>1, <4>2
    <3>3. totalConc' = totalConc + 1
      BY <2>6 DEF TriggerRecordStart, RecordStart
    <3>4. \A a \in Agents :
            concurrent'[a] = IF a = sched.agent THEN concurrent[a] + 1
                                                ELSE concurrent[a]
      BY <2>6, <3>1 DEF TriggerRecordStart, RecordStart, AdmissionTypeOK
    <3>5. WithinLimits'
      <4>1. \A a \in Agents : concurrent[a] \in Nat
        BY DEF AdmissionTypeOK
      <4>2. totalConc \in Nat
        BY DEF AdmissionTypeOK
      <4>3. \A a \in Agents : concurrent'[a] <= MaxConcurrentPerAgent
        BY <3>2, <3>4, <4>1 DEF WithinLimits
      <4>4. totalConc' <= MaxConcurrentCluster + BurstAllowance
        BY <3>2, <3>3, <4>2
      <4> QED
        BY <4>3, <4>4 DEF WithinLimits
    <3> QED
      BY <3>1, <3>5 DEF SlotReserved
  <2>7. CASE TriggerConfigFails
    BY <2>7, InTriggerRun, SlotFreed
       DEF TriggerConfigFails, Return, AtLoop, AtSelect, AdmissionTypeOK
  <2>8. ASSUME NEW r \in RunIds, TriggerSpawn(r)
        PROVE  SlotReserved' /\ WithinLimits'
    BY <2>8, ReservedKept DEF TriggerSpawn, limiterVars, Return, AtLoop, AtSelect
  <2> QED
    BY <1>1, <2>1, <2>2, <2>3, <2>4, <2>5, <2>6, <2>7, <2>8 DEF SchedulerStep
<1>2. ASSUME NEW r \in RunIds, RunStep(r)
      PROVE  SlotReserved' /\ WithinLimits'
  <2>1. CASE RunRecordComplete(r)
    <3>1. runs[r].agent \in Agents
      BY <2>1 DEF RunRecordComplete, AdmissionTypeOK, Run, FreeRun
    <3> QED
      BY <2>1, <3>1, SlotFreed DEF RunRecordComplete
  <2>2. CASE RunComplete(r)
    BY <2>2, ReservedKept DEF RunComplete, limiterVars
  <2> QED
    BY <1>2, <2>1, <2>2 DEF RunStep
<1>3. CASE Environment
  <2>1. CASE Restart
    BY <2>1 DEF Restart, AtSelect, SlotReserved, WithinLimits
  <2>2. ASSUME UNCHANGED <<sched, concurrent, totalConc>>
        PROVE  SlotReserved' /\ WithinLimits'
    BY <2>2, ReservedKept
  <2> QED
    BY <1>3, <2>1, <2>2 DEF Environment, Advance, WebhookSend, limiterVars
<1>4. CASE UNCHANGED admissionVars
  BY <1>4, ReservedKept DEF admissionVars
<1> QED
  BY <1>1, <1>2, <1>3, <1>4 DEF AdmissionNext

-----------------------------------------------------------------------------
(* Tracker entries.                                                        *)

\* Every step leaves each tracker entry with an owner that will delete it.
LEMMA NoOrphanStep ==
    ASSUME AdmissionTypeOK, NoOrphanEntry, [AdmissionNext]_admissionVars
    PROVE  NoOrphanEntry'
<1>1. ASSUME UNCHANGED runs,
             \A a \in Agents : inflight'[a] # None => inflight[a] # None,
             sched.pc \notin {"recordStart", "config"} \/ UNCHANGED sched
      PROVE  NoOrphanEntry'
  BY <1>1 DEF NoOrphanEntry
<1>2. CASE SchedulerStep
  <2>1. CASE TickListFails \/ TickDone \/ TakeTrigger
    BY <1>1, <2>1
       DEF TickListFails, TickDone, TakeTrigger, WebhookDrop, WebhookTrigger,
           CleanStale
  <2>2. ASSUME NEW listed \in SUBSET Agents, TickList(listed)
        PROVE  NoOrphanEntry'
    BY <1>1, <2>2 DEF TickList, CleanStale
  <2>3. ASSUME NEW a \in Agents, EvaluateSkip(a) \/ EvaluateDue(a)
        PROVE  NoOrphanEntry'
    BY <1>1, <2>3 DEF EvaluateSkip, EvaluateDue
  <2>4. CASE TriggerAllow
    BY <1>1, <2>4 DEF TriggerAllow
  <2>5. CASE TriggerTryStart
    <3>1. sched.agent \in Agents
      BY <2>5, InTriggerRun DEF TriggerTryStart, AdmissionTypeOK
    <3>2. CASE IsRunning(sched.agent)
      BY <1>1, <2>5, <3>2 DEF TriggerTryStart
    <3>3. CASE ~IsRunning(sched.agent)
      <4>1. /\ sched' = [pc |-> "recordStart", agent |-> sched.agent, trigger |-> sched.trigger]
            /\ inflight' = [inflight EXCEPT ![sched.agent] = 0] /\ runs' = runs
        BY <2>5, <3>3 DEF TriggerTryStart, GoTo
      <4>2. \A a \in Agents : a # sched.agent => inflight'[a] = inflight[a]
        BY <3>1, <4>1 DEF AdmissionTypeOK
      <4>3. sched.pc = "tryStart" /\ sched'.pc = "recordStart" /\ sched'.agent = sched.agent
        BY <2>5, <4>1 DEF TriggerTryStart
      <4> QED
        BY <4>1, <4>2, <4>3 DEF NoOrphanEntry
    <3> QED
      BY <3>2, <3>3
  <2>6. CASE TriggerRecordStart
    BY <2>6 DEF TriggerRecordStart, GoTo, NoOrphanEntry
  <2>7. CASE TriggerConfigFails
    <3>1. sched.agent \in Agents
      BY <2>7, InTriggerRun DEF TriggerConfigFails, AdmissionTypeOK
    <3> QED
      BY <2>7, <3>1 DEF TriggerConfigFails, Complete, NoOrphanEntry, AdmissionTypeOK
  <2>8. ASSUME NEW r \in RunIds, TriggerSpawn(r)
        PROVE  NoOrphanEntry'
    <3>1. runs'[r].agent = sched.agent
      BY <2>8 DEF TriggerSpawn, AdmissionTypeOK
    <3>2. ASSUME NEW q \in RunIds, runs[q].agent \in Agents
          PROVE  runs'[q].agent = runs[q].agent
      BY <2>8, <3>2, AdmissionConstants DEF TriggerSpawn, AdmissionTypeOK, FreeRun
    <3> QED
      BY <2>8, <3>1, <3>2 DEF TriggerSpawn, NoOrphanEntry
  <2> QED
    BY <1>2, <2>1, <2>2, <2>3, <2>4, <2>5, <2>6, <2>7, <2>8 DEF SchedulerStep
<1>3. ASSUME NEW r \in RunIds, RunStep(r)
      PROVE  NoOrphanEntry'
  <2>1. CASE RunRecordComplete(r)
    <3>1. \A q \in RunIds : runs'[q].agent = runs[q].agent
      BY <2>1 DEF RunRecordComplete, AdmissionTypeOK
    <3> QED
      BY <2>1, <3>1 DEF RunRecordComplete, NoOrphanEntry
  <2>2. CASE RunComplete(r)
    <3>1. runs[r].agent \in Agents
      BY <2>2 DEF RunComplete, AdmissionTypeOK, Run, FreeRun
    <3>2. \A q \in RunIds \ {r} : runs'[q] = runs[q]
      BY <2>2 DEF RunComplete, AdmissionTypeOK
    <3>3. \A a \in Agents : inflight'[a] # None =>
            inflight[a] # None /\ a # runs[r].agent
      BY <2>2, <3>1 DEF RunComplete, Complete, AdmissionTypeOK
    <3> QED
      BY <2>2, <3>2, <3>3 DEF RunComplete, NoOrphanEntry
  <2> QED
    BY <1>3, <2>1, <2>2 DEF RunStep
<1>4. CASE Environment
  <2>1. CASE Restart
    BY <2>1 DEF Restart, NoOrphanEntry
  <2>2. CASE Advance
    BY <1>1, <2>2 DEF Advance
  <2>3. ASSUME NEW a \in Agents, WebhookSend(a)
        PROVE  NoOrphanEntry'
    BY <1>1, <2>3 DEF WebhookSend
  <2> QED
    BY <1>4, <2>1, <2>2, <2>3 DEF Environment
<1>5. CASE UNCHANGED admissionVars
  BY <1>1, <1>5 DEF admissionVars
<1> QED
  BY <1>2, <1>3, <1>4, <1>5 DEF AdmissionNext

-----------------------------------------------------------------------------
(* The hourly rate.                                                        *)

RateInv == HistoryExact /\ RateReserved /\ HourlyRateBounded

\* Sequences of starts that agree everywhere are equal.
LEMMA SameStarts ==
    ASSUME NEW s \in Seq(StartRecord), NEW t \in Seq(StartRecord), Len(s) = Len(t),
           \A i \in 1 .. Len(s) : s[i] = t[i]
    PROVE  s = t
  OBVIOUS

\* What LastHour returns, of starts in their order: the order again, only
\* starts of the last hour, and itself if it is applied once more.
LEMMA LastHourFacts ==
    ASSUME NEW starts \in Seq(StartRecord), OldestFirst(starts)
    PROVE  /\ LastHour(starts) \in Seq(StartRecord)
           /\ OldestFirst(LastHour(starts))
           /\ \A i \in 1 .. Len(LastHour(starts)) : LastHour(starts)[i].age <= Hour
           /\ LastHour(LastHour(starts)) = LastHour(starts)
           /\ \A a : StartsOf(LastHour(starts), a) <= StartsOf(starts, a)
           /\ Len(LastHour(starts)) <= Len(starts)
<1>1. PICK d \in 0 .. Len(starts) : OldUpTo(starts, d)
  BY LastHourCuts
<1>2. LastHour(starts) = SubSeq(starts, d + 1, Len(starts))
  BY <1>1, LastHourCuts
<1>3. /\ LastHour(starts) \in Seq(StartRecord) /\ Len(LastHour(starts)) = Len(starts) - d
      /\ \A i \in 1 .. (Len(starts) - d) : LastHour(starts)[i] = starts[i + d]
      /\ \A a : StartsOf(LastHour(starts), a) <= StartsOf(starts, a)
      /\ OldestFirst(LastHour(starts))
  BY <1>2, LaterStarts
<1>4. Len(starts) \in Nat /\ d \in Nat
  OBVIOUS
<1>5. \A i \in 1 .. Len(LastHour(starts)) : LastHour(starts)[i].age <= Hour
  BY <1>1, <1>3, <1>4 DEF OldUpTo
<1>6. OldUpTo(LastHour(starts), 0)
  BY <1>3, <1>4, <1>5 DEF OldUpTo
<1>7. LastHour(LastHour(starts)) = SubSeq(LastHour(starts), 0 + 1, Len(LastHour(starts)))
  BY <1>3, <1>4, <1>6, LastHourCuts
<1>8. SubSeq(LastHour(starts), 1, Len(LastHour(starts))) = LastHour(starts)
  BY <1>3
<1> QED
  BY <1>3, <1>4, <1>5, <1>7, <1>8

\* pruneHistory keeps exactly the starts of the last hour.
LEMMA PruneExact ==
    ASSUME AdmissionTypeOK, HistoryExact
    PROVE  PrunedHistory = recent
<1> DEFINE dropped == {i \in DOMAIN history : \A j \in 1..i : ~InWindow(history[j])}
<1>1. history \in Seq(StartRecord) /\ OldestFirst(history) /\ recent = LastHour(history)
  BY DEF AdmissionTypeOK, HistoryExact, OldestFirst
<1>2. PICK d \in 0 .. Len(history) : OldUpTo(history, d)
  BY <1>1, LastHourCuts
<1>3. recent = SubSeq(history, d + 1, Len(history))
  BY <1>1, <1>2, LastHourCuts
<1>4. /\ Len(history) \in Nat /\ d \in Nat /\ DOMAIN history = 1 .. Len(history) /\ Hour \in Nat
      /\ \A i \in 1 .. Len(history) : history[i].age \in Nat
  BY <1>1, StartTypes, AdmissionConstants
<1>5. dropped = 1 .. d
  <2>1. ASSUME NEW i \in dropped PROVE i \in 1 .. d
    <3>1. i \in 1 .. Len(history) /\ history[i].age > Hour
      BY <1>4 DEF InWindow
    <3> QED
      BY <1>2, <1>4, <3>1 DEF OldUpTo
  <2>2. ASSUME NEW i \in 1 .. d PROVE i \in dropped
    <3>1. ASSUME NEW j \in 1 .. i PROVE ~InWindow(history[j])
      <4>1. j \in 1 .. d /\ j \in 1 .. Len(history)
        BY <1>4
      <4> QED
        BY <1>2, <1>4, <4>1 DEF OldUpTo, InWindow
    <3> QED
      BY <1>4, <3>1
  <2> QED
    BY <2>1, <2>2
<1>6. Cardinality(1 .. d) = d
  BY <1>4, FS_Interval
<1> QED
  BY <1>3, <1>5, <1>6 DEF PrunedHistory

\* What Allow counts is what was started in the last hour.
LEMMA AllowRate ==
    ASSUME AdmissionTypeOK, RateInv, TriggerAllow
    PROVE  RateInv'
<1>1. /\ history \in Seq(StartRecord) /\ OldestFirst(history) /\ recent = LastHour(history)
      /\ PrunedHistory = recent
  BY PruneExact DEF AdmissionTypeOK, RateInv, HistoryExact, OldestFirst
<1>2. history' = recent /\ recent' = recent
  BY <1>1 DEF TriggerAllow
<1>3. HistoryExact'
  BY <1>1, <1>2, LastHourFacts DEF HistoryExact, OldestFirst
<1>4. ASSUME NEW a PROVE CountAgent(recent, a) = StartsOf(recent, a)
  <2>1. /\ DOMAIN recent = 1 .. Len(recent)
        /\ \A i \in 1 .. Len(recent) : InWindow(recent[i])
    BY <1>1, LastHourFacts DEF InWindow
  <2> QED
    BY <2>1 DEF CountAgent, StartsOf
<1>5. RateReserved'
  <2>1. CASE Allow(sched.agent, sched.trigger = "webhook")
    <3>1. /\ StartsOf(recent, sched.agent) < MaxRunsPerHourPerAgent
          /\ Len(recent) < MaxRunsPerHourCluster
                             + (IF sched.trigger = "webhook" THEN BurstAllowance ELSE 0) * 10
      BY <1>1, <1>4, <2>1 DEF Allow
    <3>2. sched'.agent = sched.agent /\ sched'.trigger = sched.trigger
      BY <2>1 DEF TriggerAllow, GoTo
    <3> QED
      BY <1>2, <3>1, <3>2 DEF RateReserved
  <2>2. CASE ~Allow(sched.agent, sched.trigger = "webhook")
    <3>1. sched'.pc \notin {"tryStart", "recordStart"}
      BY <2>2 DEF TriggerAllow, Return, AtLoop, AtSelect
    <3> QED
      BY <3>1 DEF RateReserved
  <2> QED
    BY <2>1, <2>2
<1>6. HourlyRateBounded'
  BY <1>2 DEF RateInv, HourlyRateBounded
<1> QED
  BY <1>3, <1>5, <1>6 DEF RateInv

\* A start is recorded at the end of the history, within the limits that
\* Allow looked at.
LEMMA RecordStartRate ==
    ASSUME AdmissionTypeOK, RateInv, TriggerRecordStart
    PROVE  RateInv'
<1> DEFINE x == [agentKey |-> sched.agent, age |-> 0]
           n == Len(history)
           older == Append(history, x)
<1>1. /\ history \in Seq(StartRecord) /\ OldestFirst(history) /\ recent = LastHour(history)
  BY DEF AdmissionTypeOK, RateInv, HistoryExact, OldestFirst
<1>2. history' = older /\ recent' = Append(recent, x)
  BY DEF TriggerRecordStart, RecordStart
<1>3. sched.agent \in Agents /\ x \in StartRecord /\ x.age = 0 /\ x.agentKey = sched.agent
  BY InTriggerRun, AdmissionConstants DEF AdmissionTypeOK, TriggerRecordStart, StartRecord
<1>4. PICK d \in 0 .. n : OldUpTo(history, d)
  BY <1>1, LastHourCuts
<1>5. recent = SubSeq(history, d + 1, n)
  BY <1>1, <1>4, LastHourCuts
<1>6. /\ n \in Nat /\ d \in Nat /\ d <= n /\ DOMAIN history = 1 .. n /\ Hour \in Nat
      /\ \A i \in 1 .. n : history[i].age \in Nat
  BY <1>1, StartTypes, AdmissionConstants
<1> HIDE DEF x
<1>7. /\ older \in Seq(StartRecord) /\ Len(older) = n + 1 /\ DOMAIN older = 1 .. (n + 1)
      /\ older[n + 1] = x /\ \A i \in 1 .. n : older[i] = history[i]
  BY <1>1, <1>3, <1>6
<1> HIDE DEF n, older
<1>8. OldestFirst(older)
  <2> SUFFICES ASSUME NEW i \in 1 .. (n + 1), NEW j \in 1 .. (n + 1), i <= j
               PROVE  older[i].age >= older[j].age
    BY <1>7 DEF OldestFirst
  <2>1. CASE j = n + 1
    <3>1. older[i].age \in Nat /\ older[j].age = 0
      BY <1>7, <2>1, <1>3, StartTypes
    <3> QED
      BY <3>1
  <2>2. CASE j # n + 1
    <3>1. i \in 1 .. n /\ j \in 1 .. n
      BY <1>6, <2>2
    <3> QED
      BY <1>1, <1>6, <1>7, <3>1 DEF OldestFirst
  <2> QED
    BY <2>1, <2>2
<1>9. OldUpTo(older, d)
  <2>1. d \in 0 .. (n + 1)
    BY <1>6
  <2>2. ASSUME NEW i \in 1 .. d PROVE older[i].age > Hour
    BY <1>4, <1>6, <1>7 DEF OldUpTo, n
  <2>3. ASSUME NEW i \in (d + 1) .. (n + 1) PROVE older[i].age <= Hour
    <3>1. CASE i = n + 1
      BY <1>3, <1>6, <1>7, <3>1
    <3>2. CASE i # n + 1
      <4>1. i \in (d + 1) .. n /\ i \in 1 .. n
        BY <1>6, <3>2
      <4> QED
        BY <1>4, <1>7, <4>1 DEF OldUpTo, n
    <3> QED
      BY <3>1, <3>2
  <2> QED
    BY <1>7, <2>1, <2>2, <2>3 DEF OldUpTo
<1>10. LastHour(older) = SubSeq(older, d + 1, n + 1)
  <2>1. d \in 0 .. Len(older)
    BY <1>6, <1>7
  <2> QED
    BY <1>7, <1>9, <2>1, LastHourCuts
<1>11. /\ recent \in Seq(StartRecord) /\ Len(recent) = n - d
       /\ \A i \in 1 .. (n - d) : recent[i] = history[i + d]
  BY <1>1, <1>5, LaterStarts DEF n
<1>12. Append(recent, x) = LastHour(older)
  <2>1. /\ LastHour(older) \in Seq(StartRecord) /\ Len(LastHour(older)) = (n + 1) - d
        /\ \A i \in 1 .. ((n + 1) - d) : LastHour(older)[i] = older[i + d]
    <3>1. d \in 0 .. Len(older)
      BY <1>6, <1>7
    <3> QED
      BY <1>7, <1>10, <3>1, LaterStarts
  <2>2. /\ Append(recent, x) \in Seq(StartRecord) /\ Len(Append(recent, x)) = (n - d) + 1
        /\ Append(recent, x)[(n - d) + 1] = x
        /\ \A i \in 1 .. (n - d) : Append(recent, x)[i] = recent[i]
    BY <1>3, <1>6, <1>11
  <2>3. ASSUME NEW i \in 1 .. ((n - d) + 1)
        PROVE  Append(recent, x)[i] = LastHour(older)[i]
    <3>1. CASE i = (n - d) + 1
      <4>1. i + d = n + 1 /\ i \in 1 .. ((n + 1) - d)
        BY <1>6, <3>1
      <4> QED
        BY <1>7, <2>1, <2>2, <3>1, <4>1
    <3>2. CASE i # (n - d) + 1
      <4>1. i \in 1 .. (n - d) /\ i + d \in 1 .. n /\ i \in 1 .. ((n + 1) - d)
        BY <1>6, <3>2
      <4> QED
        BY <1>7, <1>11, <2>1, <2>2, <4>1
    <3> QED
      BY <3>1, <3>2
  <2>4. Len(Append(recent, x)) = Len(LastHour(older))
    BY <1>6, <2>1, <2>2
  <2> QED
    BY <2>1, <2>2, <2>3, <2>4, SameStarts
<1>13. HistoryExact'
  BY <1>2, <1>8, <1>12 DEF HistoryExact, OldestFirst
<1>14. RateReserved'
  BY DEF TriggerRecordStart, GoTo, RateReserved
<1>15. HourlyRateBounded'
  <2> USE AdmissionConstants
  <2>1. /\ StartsOf(recent, sched.agent) < MaxRunsPerHourPerAgent
        /\ Len(recent) < MaxRunsPerHourCluster
                           + (IF sched.trigger = "webhook" THEN BurstAllowance ELSE 0) * 10
    BY DEF RateInv, RateReserved, TriggerRecordStart
  <2>2. Len(recent') <= MaxRunsPerHourCluster + BurstAllowance * 10
    <3>1. Len(recent') = Len(recent) + 1 /\ Len(recent) \in Nat
      BY <1>2, <1>3, <1>11
    <3>2. CASE sched.trigger = "webhook"
      BY <2>1, <3>1, <3>2
    <3>3. CASE sched.trigger # "webhook"
      BY <2>1, <3>1, <3>3
    <3> QED
      BY <3>2, <3>3
  <2>3. ASSUME NEW a \in Agents PROVE StartsOf(recent', a) <= MaxRunsPerHourPerAgent
    <3> DEFINE Q == {rec \in StartRecord : rec.agentKey = a}
    <3>1. x \in Q <=> a = sched.agent
      BY <1>3
    <3> HIDE DEF Q
    <3>2. CountIn(Append(recent, x), Q) = CountIn(recent, Q) + (IF x \in Q THEN 1 ELSE 0)
      BY <1>3, <1>11, CountAppend
    <3>3. /\ StartsOf(recent, a) = CountIn(recent, Q) /\ StartsOf(recent, a) \in Nat
          /\ StartsOf(recent', a) = CountIn(Append(recent, x), Q)
      <4>1. Append(recent, x) \in Seq(StartRecord)
        BY <1>3, <1>11
      <4> QED
        BY <1>2, <1>11, <4>1, StartsOfCount DEF Q
    <3>4. StartsOf(recent, a) <= MaxRunsPerHourPerAgent
      BY DEF RateInv, HourlyRateBounded
    <3>5. CASE a = sched.agent
      BY <2>1, <3>1, <3>2, <3>3, <3>5
    <3>6. CASE a # sched.agent
      BY <3>1, <3>2, <3>3, <3>4, <3>6
    <3> QED
      BY <3>5, <3>6
  <2> QED
    BY <2>2, <2>3 DEF HourlyRateBounded
<1> QED
  BY <1>13, <1>14, <1>15 DEF RateInv

\* When time passes, the starts of the last hour are the same whether the
\* old ones were dropped before or are dropped now.
LEMMA LastHourOlder ==
    ASSUME NEW starts \in Seq(StartRecord), OldestFirst(starts)
    PROVE  LastHour(Older(starts)) = LastHour(Older(LastHour(starts)))
<1> DEFINE n == Len(starts)
           later == LastHour(starts)
           all == Older(starts)
           few == Older(later)
<1>1. PICK d \in 0 .. n : OldUpTo(starts, d)
  BY LastHourCuts
<1>2. /\ later \in Seq(StartRecord) /\ Len(later) = n - d
      /\ \A i \in 1 .. (n - d) : later[i] = starts[i + d]
  <2>1. later = SubSeq(starts, d + 1, n)
    BY <1>1, LastHourCuts
  <2> QED
    BY <2>1, LaterStarts
<1>3. /\ n \in Nat /\ d \in Nat /\ d <= n /\ Hour \in Nat
      /\ \A i \in 1 .. n : starts[i].age \in Nat
  BY StartTypes, AdmissionConstants
<1> HIDE DEF later
<1>4. /\ all \in Seq(StartRecord) /\ Len(all) = n /\ OldestFirst(all)
      /\ \A i \in 1 .. n :
           /\ all[i].agentKey = starts[i].agentKey
           /\ all[i].age = IF starts[i].age > Hour THEN starts[i].age ELSE starts[i].age + 1
  BY OlderStarts
<1>5. /\ few \in Seq(StartRecord) /\ Len(few) = n - d
      /\ \A i \in 1 .. (n - d) :
           /\ few[i].agentKey = later[i].agentKey
           /\ few[i].age = IF later[i].age > Hour THEN later[i].age ELSE later[i].age + 1
  BY <1>2, OlderStarts
<1> HIDE DEF n, all, few
<1>6. ASSUME NEW i \in 1 .. (n - d)
      PROVE  few[i] = all[i + d]
  <2>1. i + d \in 1 .. n
    BY <1>3
  <2>2. few[i].agentKey = all[i + d].agentKey /\ few[i].age = all[i + d].age
    BY <1>2, <1>4, <1>5, <2>1
  <2>3. few[i] \in StartRecord /\ all[i + d] \in StartRecord
    BY <1>4, <1>5, <2>1, StartTypes
  <2> QED
    BY <2>2, <2>3, SameStart
<1>7. PICK e \in 0 .. n : OldUpTo(all, e)
  BY <1>4, LastHourCuts
<1>8. d <= e
  <2> SUFFICES ASSUME e < d PROVE FALSE
    BY <1>3
  <2>1. e + 1 \in 1 .. d /\ e + 1 \in 1 .. n /\ e + 1 \in (e + 1) .. n
    BY <1>3
  <2>2. starts[e + 1].age > Hour /\ all[e + 1].age <= Hour
    BY <1>1, <1>4, <1>7, <2>1 DEF OldUpTo
  <2> QED
    BY <1>3, <1>4, <2>1, <2>2
<1>9. OldUpTo(few, e - d)
  <2>1. e - d \in 0 .. (n - d)
    BY <1>3, <1>8
  <2>2. ASSUME NEW i \in 1 .. (e - d) PROVE few[i].age > Hour
    <3>1. i \in 1 .. (n - d) /\ i + d \in 1 .. e
      BY <1>3, <1>8
    <3> QED
      BY <1>6, <1>7, <3>1 DEF OldUpTo
  <2>3. ASSUME NEW i \in ((e - d) + 1) .. (n - d) PROVE few[i].age <= Hour
    <3>1. i \in 1 .. (n - d) /\ i + d \in (e + 1) .. n
      BY <1>3, <1>8
    <3> QED
      BY <1>4, <1>6, <1>7, <3>1 DEF OldUpTo
  <2> QED
    BY <1>5, <2>1, <2>2, <2>3 DEF OldUpTo
<1>10. /\ LastHour(all) \in Seq(StartRecord) /\ Len(LastHour(all)) = n - e
       /\ \A i \in 1 .. (n - e) : LastHour(all)[i] = all[i + e]
  <2>1. LastHour(all) = SubSeq(all, e + 1, n)
    BY <1>4, <1>7, LastHourCuts
  <2> QED
    BY <1>4, <2>1, LaterStarts
<1>11. /\ LastHour(few) \in Seq(StartRecord) /\ Len(LastHour(few)) = (n - d) - (e - d)
       /\ \A i \in 1 .. ((n - d) - (e - d)) : LastHour(few)[i] = few[i + (e - d)]
  <2>1. e - d \in 0 .. Len(few)
    BY <1>3, <1>5, <1>8
  <2>2. LastHour(few) = SubSeq(few, (e - d) + 1, n - d)
    BY <1>5, <1>9, <2>1, LastHourCuts
  <2> QED
    BY <1>5, <2>1, <2>2, LaterStarts
<1>12. (n - d) - (e - d) = n - e
  BY <1>3
<1>13. ASSUME NEW i \in 1 .. (n - e) PROVE LastHour(all)[i] = LastHour(few)[i]
  <2>1. i + (e - d) \in 1 .. (n - d) /\ (i + (e - d)) + d = i + e
    BY <1>3, <1>8
  <2>2. few[i + (e - d)] = all[i + e]
    BY <1>6, <2>1
  <2> QED
    BY <1>10, <1>11, <1>12, <2>2
<1> QED
  BY <1>10, <1>11, <1>12, <1>13, SameStarts DEF all, few, later

\* Time only lets starts leave the last hour.
LEMMA AdvanceRate ==
    ASSUME AdmissionTypeOK, RateInv, Advance
    PROVE  RateInv'
<1> USE AdmissionConstants
<1>1. /\ history \in Seq(StartRecord) /\ recent \in Seq(StartRecord)
      /\ OldestFirst(history) /\ OldestFirst(recent) /\ recent = LastHour(history)
  <2>1. history \in Seq(StartRecord) /\ OldestFirst(history) /\ recent = LastHour(history)
    BY DEF AdmissionTypeOK, RateInv, HistoryExact, OldestFirst
  <2> QED
    BY <2>1, LastHourFacts
<1>2. history' = Older(history) /\ recent' = LastHour(Older(recent)) /\ UNCHANGED sched
  BY DEF Advance
<1>3. HistoryExact'
  <2>1. OldestFirst(Older(history))
    BY <1>1, OlderStarts
  <2>2. LastHour(Older(history)) = LastHour(Older(recent))
    BY <1>1, LastHourOlder
  <2> QED
    BY <1>2, <2>1, <2>2 DEF HistoryExact, OldestFirst
<1>4. /\ Older(recent) \in Seq(StartRecord) /\ Len(Older(recent)) = Len(recent)
      /\ \A i \in 1 .. Len(recent) : Older(recent)[i].agentKey = recent[i].agentKey
      /\ OldestFirst(Older(recent))
  BY <1>1, OlderStarts
<1>5. Len(recent') <= Len(recent) /\ Len(recent) \in Nat /\ Len(recent') \in Nat
  <2>1. recent' \in Seq(StartRecord) /\ Len(recent') <= Len(Older(recent))
    BY <1>2, <1>4, LastHourFacts
  <2> QED
    BY <1>1, <1>4, <2>1
<1>6. ASSUME NEW a
      PROVE  /\ StartsOf(recent', a) <= StartsOf(recent, a)
             /\ StartsOf(recent', a) \in Nat /\ StartsOf(recent, a) \in Nat
  <2>1. StartsOf(Older(recent), a) = StartsOf(recent, a)
    <3>1. DOMAIN Older(recent) = 1 .. Len(recent) /\ DOMAIN recent = 1 .. Len(recent)
      BY <1>1, <1>4
    <3>2. {i \in DOMAIN Older(recent) : Older(recent)[i].agentKey = a}
            = {i \in DOMAIN recent : recent[i].agentKey = a}
      BY <1>4, <3>1
    <3> QED
      BY <3>2 DEF StartsOf
  <2>2. recent' \in Seq(StartRecord) /\ StartsOf(recent', a) <= StartsOf(Older(recent), a)
    BY <1>2, <1>4, LastHourFacts
  <2> QED
    BY <1>1, <2>1, <2>2, StartsOfCount
<1>7. HourlyRateBounded'
  BY <1>5, <1>6 DEF RateInv, HourlyRateBounded
<1>8. RateReserved'
  <2> SUFFICES ASSUME sched.pc \in {"tryStart", "recordStart"}
               PROVE  /\ StartsOf(recent', sched.agent) < MaxRunsPerHourPerAgent
                      /\ Len(recent') < MaxRunsPerHourCluster
                           + (IF sched.trigger = "webhook" THEN BurstAllowance ELSE 0) * 10
    BY <1>2 DEF RateReserved
  <2>1. /\ StartsOf(recent, sched.agent) < MaxRunsPerHourPerAgent
        /\ Len(recent) < MaxRunsPerHourCluster
                           + (IF sched.trigger = "webhook" THEN BurstAllowance ELSE 0) * 10
    BY DEF RateInv, RateReserved
  <2> QED
    BY <1>5, <1>6, <2>1
<1> QED
  BY <1>3, <1>7, <1>8 DEF RateInv

\* No run has started yet.
LEMMA EmptyRate ==
    ASSUME NEW a
    PROVE  /\ LastHour(<<>>) = <<>> /\ Len(<<>>) = 0
           /\ StartsOf(<<>>, a) = 0 /\ DOMAIN <<>> = {}
<1>1. DOMAIN <<>> = {} /\ Len(<<>>) = 0
  OBVIOUS
<1>2. /\ {i \in DOMAIN <<>> : <<>>[i].agentKey = a} = {}
      /\ {i \in DOMAIN <<>> : <<>>[i].age > Hour} = {}
  BY <1>1
<1>3. Cardinality({}) = 0
  BY FS_EmptySet
<1>4. SubSeq(<<>>, 0 + 1, 0) = <<>>
  OBVIOUS
<1> QED
  BY <1>1, <1>2, <1>3, <1>4 DEF LastHour, StartsOf

\* Every step keeps the hourly rate within its limits.
LEMMA RateStep ==
    ASSUME AdmissionTypeOK, RateInv, [AdmissionNext]_admissionVars
    PROVE  RateInv'
<1>1. ASSUME UNCHANGED <<history, recent>>,
             \/ sched'.pc \notin {"tryStart", "recordStart"}
             \/ UNCHANGED sched
      PROVE  RateInv'
  BY <1>1 DEF RateInv, HistoryExact, RateReserved, HourlyRateBounded, LastHour, StartsOf
<1>2. CASE SchedulerStep
  <2>1. CASE TickListFails \/ TickDone \/ TakeTrigger
    BY <1>1, <2>1
       DEF TickListFails, TickDone, TakeTrigger, WebhookDrop, WebhookTrigger,
           AtLoop, AtSelect, limiterVars
  <2>2. ASSUME NEW listed \in SUBSET Agents, TickList(listed)
        PROVE  RateInv'
    BY <1>1, <2>2 DEF TickList, AtLoop, limiterVars
  <2>3. ASSUME NEW a \in Agents, EvaluateSkip(a) \/ EvaluateDue(a)
        PROVE  RateInv'
    BY <1>1, <2>3 DEF EvaluateSkip, EvaluateDue, limiterVars
  <2>4. CASE TriggerTryStart
    <3>1. CASE IsRunning(sched.agent)
      BY <1>1, <2>4, <3>1 DEF TriggerTryStart, Return, AtLoop, AtSelect, limiterVars
    <3>2. CASE ~IsRunning(sched.agent)
      <4>1. /\ UNCHANGED <<history, recent>> /\ sched.pc = "tryStart"
            /\ sched'.agent = sched.agent /\ sched'.trigger = sched.trigger
        BY <2>4, <3>2 DEF TriggerTryStart, GoTo, limiterVars
      <4>2. HistoryExact' /\ HourlyRateBounded'
        BY <4>1 DEF RateInv, HistoryExact, HourlyRateBounded, LastHour, StartsOf
      <4>3. RateReserved'
        BY <4>1 DEF RateInv, RateReserved, StartsOf
      <4> QED
        BY <4>2, <4>3 DEF RateInv
    <3> QED
      BY <3>1, <3>2
  <2>5. CASE TriggerConfigFails
    BY <1>1, <2>5 DEF TriggerConfigFails, RecordComplete, Return, AtLoop, AtSelect
  <2>6. ASSUME NEW r \in RunIds, TriggerSpawn(r)
        PROVE  RateInv'
    BY <1>1, <2>6 DEF TriggerSpawn, Return, AtLoop, AtSelect, limiterVars
  <2> QED
    BY <1>2, <2>1, <2>2, <2>3, <2>4, <2>5, <2>6, AllowRate, RecordStartRate
       DEF SchedulerStep
<1>3. ASSUME NEW r \in RunIds, RunStep(r)
      PROVE  RateInv'
  BY <1>1, <1>3 DEF RunStep, RunRecordComplete, RunComplete, RecordComplete, limiterVars
<1>4. CASE Restart
  BY <1>4, EmptyRate, AdmissionConstants
     DEF Restart, AtSelect, RateInv, HistoryExact, RateReserved, HourlyRateBounded
<1>5. ASSUME NEW a \in Agents, WebhookSend(a)
      PROVE  RateInv'
  BY <1>1, <1>5 DEF WebhookSend, limiterVars
<1>6. CASE UNCHANGED admissionVars
  BY <1>1, <1>6 DEF admissionVars
<1> QED
  BY <1>2, <1>3, <1>4, <1>5, <1>6, AdvanceRate DEF AdmissionNext, Environment

-----------------------------------------------------------------------------
(* The theorems.                                                           *)

\* The empty tracker and limiter satisfy the inductive invariant.
LEMMA AdmissionInvInit == AdmissionInit => AdmissionInv
<1> SUFFICES ASSUME AdmissionInit PROVE AdmissionInv
  OBVIOUS
<1> USE AdmissionConstants
<1>1. AdmissionTypeOK
  BY DEF AdmissionInit, AdmissionTypeOK, Sched, AtSelect, Run, FreeRun
<1>2. LimiterExact
  <2>1. /\ AllHolding = {} /\ AnyStarting = 0
        /\ \A a \in Agents : Holding(a) = {} /\ Starting(a) = 0
    BY DEF AdmissionInit, Holding, AllHolding, FreeRun, AtSelect, Starting,
           AnyStarting
  <2>2. totalConc = 0 /\ \A a \in Agents : concurrent[a] = 0
    BY DEF AdmissionInit
  <2>3. /\ Cardinality(AllHolding) = 0
        /\ \A a \in Agents : Cardinality(Holding(a)) = 0
    BY <2>1, FS_EmptySet
  <2> QED
    BY <2>1, <2>2, <2>3 DEF LimiterExact
<1>3. SlotReserved /\ WithinLimits
  BY DEF AdmissionInit, AtSelect, SlotReserved, WithinLimits
<1>4. NoOrphanEntry
  BY DEF AdmissionInit, NoOrphanEntry
<1>5. RateInv
  BY EmptyRate DEF AdmissionInit, AtSelect, RateInv, HistoryExact, RateReserved, HourlyRateBounded
<1> QED
  BY <1>1, <1>2, <1>3, <1>4, <1>5 DEF AdmissionInv, WithinLimits, RateInv

\* AdmissionInv is an inductive invariant of run admission.
THEOREM AdmissionInvariant == AdmissionSpec => []AdmissionInv
<1>1. AdmissionInv /\ [AdmissionNext]_admissionVars => AdmissionInv'
  BY AdmissionTypeStep, LimiterExactStep, WithinLimitsStep, NoOrphanStep, RateStep
     DEF AdmissionInv, WithinLimits, RateInv
<1> QED
  BY <1>1, AdmissionInvInit, PTL DEF AdmissionSpec

\* RecordStart and RecordComplete pair up on every path: the counters of the
\* Limiter are always the runs that hold a slot.
THEOREM LimiterIsExact == AdmissionSpec => []LimiterExact
<1>1. AdmissionInv => LimiterExact
  BY DEF AdmissionInv
<1> QED
  BY <1>1, AdmissionInvariant, PTL

\* No more runs of one agent, or of all, hold a slot than the configuration
\* allows, for every number of agents and runs and every limit.
THEOREM ConcurrencyIsBounded == AdmissionSpec => []ConcurrencyBounded
<1>1. AdmissionInv => ConcurrencyBounded
  <2> SUFFICES ASSUME AdmissionInv PROVE ConcurrencyBounded
    OBVIOUS
  <2>1. /\ AnyStarting \in {0, 1}
        /\ \A a \in Agents : Starting(a) \in {0, 1}
    BY DEF Starting, AnyStarting
  <2>2. ASSUME NEW a \in Agents
        PROVE  Cardinality(Holding(a)) <= MaxConcurrentPerAgent
    BY <2>1, HoldingFinite, AdmissionConstants DEF AdmissionInv, LimiterExact
  <2>3. Cardinality(AllHolding) <= MaxConcurrentCluster + BurstAllowance
    BY <2>1, HoldingFinite, AdmissionConstants DEF AdmissionInv, LimiterExact
  <2> QED
    BY <2>2, <2>3 DEF ConcurrencyBounded
<1> QED
  BY <1>1, AdmissionInvariant, PTL

\* In every hour an agent is started at most MaxRunsPerHourPerAgent times and
\* all agents together at most MaxRunsPerHourCluster plus ten times the burst,
\* for every length of the hour and every limit, although Allow and
\* RecordStart are separate steps and Allow forgets what it prunes.
THEOREM HourlyRateIsBounded == AdmissionSpec => []HourlyRateBounded
<1>1. AdmissionInv => HourlyRateBounded
  BY DEF AdmissionInv
<1> QED
  BY <1>1, AdmissionInvariant, PTL

\* pruneHistory never drops a start of the last hour.
THEOREM HistoryIsExact == AdmissionSpec => []HistoryExact
<1>1. AdmissionInv => HistoryExact
  BY DEF AdmissionInv
<1> QED
  BY <1>1, AdmissionInvariant, PTL

\* Every entry of the RunTracker has a run, or a start in progress, that will
\* delete it.
THEOREM EntriesAreOwned == AdmissionSpec => []NoOrphanEntry
<1>1. AdmissionInv => NoOrphanEntry
  BY DEF AdmissionInv
<1> QED
  BY <1>1, AdmissionInvariant, PTL

\* A scheduled start never uses the burst kept for webhook triggers.
THEOREM ScheduledStartsWithinCluster == AdmissionSpec => ScheduledWithinCluster
<1>1. AdmissionInv /\ [AdmissionNext]_admissionVars
        => [sched.trigger = "scheduled" /\ totalConc' > totalConc
              => Cardinality(AllHolding) < MaxConcurrentCluster]_admissionVars
  <2> SUFFICES ASSUME AdmissionInv, AdmissionNext, sched.trigger = "scheduled",
                      totalConc' > totalConc
               PROVE  Cardinality(AllHolding) < MaxConcurrentCluster
    OBVIOUS
  <2> USE AdmissionConstants
  <2>1. totalConc \in Nat /\ totalConc' \in Nat
    BY AdmissionTypeStep DEF AdmissionInv, AdmissionTypeOK
  <2>2. ~(totalConc' <= totalConc)
    BY <2>1
  <2>3. TriggerRecordStart
    <3>1. ASSUME NEW a, RecordComplete(a)
          PROVE  totalConc' <= totalConc
      BY <2>1, <3>1 DEF RecordComplete
    <3>2. totalConc' # totalConc /\ totalConc' # 0
      BY <2>1
    <3> QED
      BY <2>2, <3>1, <3>2
         DEF AdmissionNext, SchedulerStep, RunStep, Environment, TickListFails,
             TickDone, TakeTrigger, WebhookDrop, WebhookTrigger, TickList,
             EvaluateSkip, EvaluateDue, TriggerAllow, TriggerTryStart,
             TriggerConfigFails, TriggerSpawn, RunRecordComplete, RunComplete,
             Advance, Restart, WebhookSend, limiterVars
  <2>4. totalConc < MaxConcurrentCluster
    BY <2>3 DEF TriggerRecordStart, AdmissionInv, SlotReserved
  <2>5. totalConc = Cardinality(AllHolding)
    BY <2>3, HoldingFinite DEF TriggerRecordStart, AdmissionInv, LimiterExact,
                               AnyStarting
  <2> QED
    BY <2>4, <2>5
<1> QED
  BY <1>1, AdmissionInvariant, PTL DEF AdmissionSpec, ScheduledWithinCluster

=============================================================================
