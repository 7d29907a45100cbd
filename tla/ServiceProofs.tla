---------------------------- MODULE ServiceProofs ----------------------------
(***************************************************************************)
(* Proofs about the services around a run: the quota enforcer, legator run *)
(* --wait, the tools with connections of their own, the loading of skills, *)
(* the escalations and the inventory of devices.                           *)
(***************************************************************************)
EXTENDS Quotas, RunWait, RemoteTools, Skills, Reporting, Inventory,
        FiniteSetTheorems, TLAPS

-----------------------------------------------------------------------------
(* Quotas.                                                                 *)

\* Every set of the team's runs is finite and counted by a natural number.
LEMMA TeamSetFinite ==
    ASSUME NEW S \in SUBSET TeamRuns
    PROVE  IsFiniteSet(S) /\ Cardinality(S) \in 0 .. Cardinality(TeamRuns)
<1>1. IsFiniteSet(TeamRuns) /\ Cardinality(TeamRuns) \in Nat
  BY FS_CardinalityType, QuotaConstants
<1>2. IsFiniteSet(S) /\ Cardinality(S) <= Cardinality(TeamRuns)
  BY <1>1, FS_Subset
<1>3. Cardinality(S) \in Nat
  BY <1>2, FS_CardinalityType
<1> QED
  BY <1>1, <1>2, <1>3

\* The conjuncts of QuotaTypeOK, one by one.
LEMMA QuotaTypes ==
    ASSUME QuotaTypeOK
    PROVE  /\ usage.concurrent \in Nat /\ usage.today \in Nat /\ usage.tokens \in Nat
           /\ usage = [concurrent |-> usage.concurrent, today |-> usage.today, tokens |-> usage.tokens]
           /\ usage.tokens <= TokenBound
           /\ DOMAIN teamRun = TeamRuns
           /\ renewed \in BOOLEAN
<1>1. Cardinality(TeamRuns) \in Nat
  BY TeamSetFinite
<1>2. TokenBound \in Nat
  BY <1>1, QuotaConstants DEF TokenBound
<1> QED
  BY <1>1, <1>2, QuotaConstants DEF QuotaTypeOK

\* A usage is well typed when its counters are within the bounds that QuotaInv
\* gives them.
LEMMA QuotaTyped ==
    ASSUME NEW concurrent \in Nat, NEW today \in Nat, NEW tokens \in Nat,
           concurrent <= Cardinality(TeamRuns),
           today <= MaxRunsPerDay + Cardinality(TeamRuns), tokens <= TokenBound
    PROVE  [concurrent |-> concurrent, today |-> today, tokens |-> tokens]
             \in [concurrent : 0 .. Cardinality(TeamRuns),
                  today : 0 .. MaxRunsPerDay + Cardinality(TeamRuns), tokens : 0 .. TokenBound]
<1>1. Cardinality(TeamRuns) \in Nat
  BY TeamSetFinite
<1>2. TokenBound \in Nat
  BY <1>1, QuotaConstants DEF TokenBound
<1>3. concurrent \in 0 .. Cardinality(TeamRuns)
  BY <1>1
<1>4. today \in 0 .. MaxRunsPerDay + Cardinality(TeamRuns)
  BY <1>1, QuotaConstants
<1>5. tokens \in 0 .. TokenBound
  BY <1>2
<1> QED
  BY <1>3, <1>4, <1>5

\* The initial state satisfies the invariant: no run, no usage.
LEMMA QuotaInvInit ==
    QuotaInit => QuotaInv
<1> SUFFICES ASSUME QuotaInit PROVE QuotaInv
  OBVIOUS
<1>1. Running = {} /\ Checked = {}
  BY DEF QuotaInit, Running, Checked
<1>2. Cardinality({}) = 0
  BY FS_EmptySet
<1>3. Cardinality(TeamRuns) \in Nat
  BY TeamSetFinite
<1>4. TokenBound \in Nat
  BY <1>3, QuotaConstants DEF TokenBound
<1>5. usage = [concurrent |-> 0, today |-> 0, tokens |-> 0]
  BY DEF QuotaInit, NoUsage
<1>6. usage.concurrent = 0 /\ usage.today = 0
  BY <1>5
<1>7. QuotaTypeOK
  <2>1. usage \in [concurrent : 0 .. Cardinality(TeamRuns),
                   today : 0 .. MaxRunsPerDay + Cardinality(TeamRuns), tokens : 0 .. TokenBound]
    BY <1>3, <1>4, <1>5, QuotaTyped, QuotaConstants
  <2>2. teamRun \in [TeamRuns -> {"idle", "checked", "running"}] /\ renewed \in BOOLEAN
    BY DEF QuotaInit
  <2> QED
    BY <2>1, <2>2 DEF QuotaTypeOK
<1> QED
  BY <1>1, <1>2, <1>3, <1>6, <1>7, QuotaConstants DEF QuotaInv

\* How the two counts follow a run from one place to the next.
LEMMA QuotaCounts ==
    ASSUME QuotaTypeOK, NEW r \in TeamRuns, NEW place \in {"idle", "checked", "running"},
           place # teamRun[r], teamRun' = [teamRun EXCEPT ![r] = place]
    PROVE  /\ Cardinality(Running') = IF place = "running" THEN Cardinality(Running) + 1
                                      ELSE IF teamRun[r] = "running" THEN Cardinality(Running) - 1
                                      ELSE Cardinality(Running)
           /\ Cardinality(Checked') = IF place = "checked" THEN Cardinality(Checked) + 1
                                      ELSE IF teamRun[r] = "checked" THEN Cardinality(Checked) - 1
                                      ELSE Cardinality(Checked)
<1> USE DEF QuotaTypeOK
<1>1. /\ Running' = IF place = "running" THEN Running \cup {r} ELSE Running \ {r}
      /\ Checked' = IF place = "checked" THEN Checked \cup {r} ELSE Checked \ {r}
  BY DEF Running, Checked
<1>2. /\ r \in Running <=> teamRun[r] = "running"
      /\ r \in Checked <=> teamRun[r] = "checked"
  BY DEF Running, Checked
<1>3. IsFiniteSet(Running) /\ IsFiniteSet(Checked)
  BY TeamSetFinite DEF Running, Checked
<1>4. ASSUME NEW S, IsFiniteSet(S)
      PROVE  /\ r \notin S => Cardinality(S \cup {r}) = Cardinality(S) + 1
             /\ r \in S => Cardinality(S \ {r}) = Cardinality(S) - 1
             /\ r \notin S => S \ {r} = S
  <2>1. r \notin S => Cardinality(S \cup {r}) = Cardinality(S) + 1
    BY <1>4, FS_AddElement
  <2>2. r \in S => Cardinality(S \ {r}) = Cardinality(S) - 1
    BY <1>4, FS_RemoveElement
  <2> QED
    BY <2>1, <2>2
<1>5. Cardinality(Running') = IF place = "running" THEN Cardinality(Running) + 1
                              ELSE IF teamRun[r] = "running" THEN Cardinality(Running) - 1
                              ELSE Cardinality(Running)
  BY <1>1, <1>2, <1>3, <1>4
<1>6. Cardinality(Checked') = IF place = "checked" THEN Cardinality(Checked) + 1
                              ELSE IF teamRun[r] = "checked" THEN Cardinality(Checked) - 1
                              ELSE Cardinality(Checked)
  BY <1>1, <1>2, <1>3, <1>4
<1> QED
  BY <1>5, <1>6

\* Every step of the enforcer preserves its invariant.
LEMMA QuotaInvStep ==
    QuotaInv /\ [QuotaNext]_quotaVars => QuotaInv'
<1> SUFFICES ASSUME QuotaInv, [QuotaNext]_quotaVars PROVE QuotaInv'
  OBVIOUS
<1>0. QuotaTypeOK
  BY DEF QuotaInv
<1>1. /\ Cardinality(TeamRuns) \in Nat /\ TokenBound \in Nat
      /\ Cardinality(Running) \in Nat /\ Cardinality(Checked) \in Nat
      /\ Cardinality(Running) <= Cardinality(TeamRuns)
  <2>1. Running \subseteq TeamRuns /\ Checked \subseteq TeamRuns
    BY DEF Running, Checked
  <2>2. Cardinality(TeamRuns) \in Nat
    BY TeamSetFinite
  <2> QED
    BY <2>1, <2>2, TeamSetFinite, QuotaConstants DEF TokenBound
<1>2. /\ Cardinality(Running') <= Cardinality(TeamRuns) /\ Cardinality(Running') \in Nat
      /\ Cardinality(Checked') <= Cardinality(TeamRuns) /\ Cardinality(Checked') \in Nat
  <2>1. Running' \subseteq TeamRuns /\ Checked' \subseteq TeamRuns
    BY DEF Running, Checked
  <2> QED
    BY <2>1, <1>1, TeamSetFinite
<1>3. /\ usage.concurrent \in Nat /\ usage.today \in Nat /\ usage.tokens \in Nat
      /\ usage = [concurrent |-> usage.concurrent, today |-> usage.today, tokens |-> usage.tokens]
      /\ usage.tokens <= TokenBound /\ renewed \in BOOLEAN
  BY <1>0, QuotaTypes
<1>4. /\ usage.concurrent <= Cardinality(Running)
      /\ ~renewed => usage.concurrent = Cardinality(Running)
      /\ usage.today + Cardinality(Checked) <= MaxRunsPerDay + Cardinality(TeamRuns)
  BY DEF QuotaInv
<1>5. ASSUME NEW c \in Nat, NEW d \in Nat, NEW t \in Nat,
             usage' = [concurrent |-> c, today |-> d, tokens |-> t], t <= TokenBound,
             c <= Cardinality(Running'), ~renewed' => c = Cardinality(Running'),
             d + Cardinality(Checked') <= MaxRunsPerDay + Cardinality(TeamRuns),
             teamRun' \in [TeamRuns -> {"idle", "checked", "running"}], renewed' \in BOOLEAN
      PROVE  QuotaInv'
  <2>1. usage'.concurrent = c /\ usage'.today = d
    BY <1>5
  <2>2. d <= MaxRunsPerDay + Cardinality(TeamRuns) /\ c <= Cardinality(TeamRuns)
    BY <1>5, <1>1, <1>2, QuotaConstants
  <2>3. QuotaTypeOK'
    BY <1>5, <2>2, QuotaTyped DEF QuotaTypeOK
  <2> QED
    BY <1>5, <2>1, <2>3 DEF QuotaInv
<1>6. teamRun \in [TeamRuns -> {"idle", "checked", "running"}]
  BY <1>0 DEF QuotaTypeOK
<1>7. ASSUME NEW r \in TeamRuns, CheckCanStartRun(r) PROVE QuotaInv'
  <2>1. teamRun[r] = "idle" /\ teamRun' = [teamRun EXCEPT ![r] = "checked"]
        /\ usage' = usage /\ renewed' = renewed
    BY <1>7 DEF CheckCanStartRun
  <2>2. Cardinality(Running') = Cardinality(Running)
    BY <2>1, <1>0, QuotaCounts
  <2>3. usage.today + Cardinality(Checked') <= MaxRunsPerDay + Cardinality(TeamRuns)
    <3>1. usage.today < MaxRunsPerDay
      BY <1>7, <1>3, QuotaConstants DEF CheckCanStartRun, Exceeds
    <3> QED
      BY <3>1, <1>1, <1>2, <1>3, QuotaConstants
  <2>4. teamRun' \in [TeamRuns -> {"idle", "checked", "running"}]
    BY <2>1, <1>6
  <2>5. usage.concurrent <= Cardinality(Running') /\ (~renewed' => usage.concurrent = Cardinality(Running'))
    BY <2>1, <2>2, <1>4
  <2>6. usage' = [concurrent |-> usage.concurrent, today |-> usage.today, tokens |-> usage.tokens]
    BY <2>1, <1>3
  <2> QED
    BY <2>1, <2>3, <2>4, <2>5, <2>6, <1>3, <1>5
<1>8. ASSUME NEW r \in TeamRuns, RecordRunStart(r) PROVE QuotaInv'
  <2>1. teamRun[r] = "checked" /\ teamRun' = [teamRun EXCEPT ![r] = "running"] /\ renewed' = renewed
    BY <1>8 DEF RecordRunStart
  <2>2. Cardinality(Running') = Cardinality(Running) + 1
        /\ Cardinality(Checked') = Cardinality(Checked) - 1
    BY <2>1, <1>0, QuotaCounts
  <2>3. usage' = [concurrent |-> usage.concurrent + 1, today |-> usage.today + 1, tokens |-> usage.tokens]
    <3>1. usage' = [usage EXCEPT !.concurrent = usage.concurrent + 1, !.today = usage.today + 1]
      BY <1>8 DEF RecordRunStart
    <3> QED
      BY <3>1, <1>3
  <2>4. teamRun' \in [TeamRuns -> {"idle", "checked", "running"}]
    BY <2>1, <1>6
  <2>5. /\ usage.concurrent + 1 \in Nat /\ usage.today + 1 \in Nat
        /\ usage.concurrent + 1 <= Cardinality(Running')
        /\ (usage.today + 1) + Cardinality(Checked') <= MaxRunsPerDay + Cardinality(TeamRuns)
    BY <2>2, <1>1, <1>3, <1>4, QuotaConstants
  <2>6. ~renewed' => usage.concurrent + 1 = Cardinality(Running')
    BY <2>1, <2>2, <1>4
  <2> QED
    BY <2>1, <2>3, <2>4, <2>5, <2>6, <1>3, <1>5
<1>9. ASSUME NEW r \in TeamRuns, NEW tokens \in {0, RunTokens}, RecordRunEnd(r, tokens) PROVE QuotaInv'
  <2> DEFINE c == IF usage.concurrent > 0 THEN usage.concurrent - 1 ELSE 0
             t == usage.tokens + tokens
  <2>1. teamRun[r] = "running" /\ teamRun' = [teamRun EXCEPT ![r] = "idle"] /\ renewed' = renewed
        /\ t <= TokenBound
    BY <1>9 DEF RecordRunEnd
  <2>2. Cardinality(Running') = Cardinality(Running) - 1 /\ Cardinality(Checked') = Cardinality(Checked)
    BY <2>1, <1>0, QuotaCounts
  <2>3. usage' = [concurrent |-> c, today |-> usage.today, tokens |-> t]
    <3>1. usage' = [usage EXCEPT !.concurrent = c, !.tokens = t]
      BY <1>9 DEF RecordRunEnd
    <3> HIDE DEF c, t
    <3> QED
      BY <3>1, <1>3
  <2>4. teamRun' \in [TeamRuns -> {"idle", "checked", "running"}]
    BY <2>1, <1>6
  <2>5. c \in Nat /\ t \in Nat /\ c <= Cardinality(Running')
    BY <2>2, <1>1, <1>2, <1>3, <1>4, QuotaConstants
  <2>6. usage.concurrent = Cardinality(Running) => c = Cardinality(Running')
    BY <2>2, <1>1, <1>2, <1>3
  <2>7. ~renewed' => c = Cardinality(Running')
    BY <2>1, <2>6, <1>4
  <2>8. usage.today + Cardinality(Checked') <= MaxRunsPerDay + Cardinality(TeamRuns)
    BY <2>2, <1>4
  <2> HIDE DEF c, t
  <2> QED
    BY <2>1, <2>3, <2>4, <2>5, <2>7, <2>8, <1>3, <1>5
<1>10. ASSUME teamRun' = teamRun
       PROVE Running' = Running /\ Checked' = Checked
  BY <1>10 DEF Running, Checked
<1>11. CASE RegisterTeam
  <2>1. usage' = [concurrent |-> 0, today |-> 0, tokens |-> 0] /\ teamRun' = teamRun
    BY <1>11 DEF RegisterTeam, NoUsage
  <2>2. Running' = Running /\ Checked' = Checked
    BY <2>1, <1>10
  <2>3. ~renewed' => 0 = Cardinality(Running')
    <3>1. ~renewed' => Running = {}
      BY <1>11 DEF RegisterTeam, Running
    <3> QED
      BY <3>1, <2>2, FS_EmptySet
  <2>4. renewed' \in BOOLEAN
    BY <1>11 DEF RegisterTeam
  <2>5. 0 + Cardinality(Checked') <= MaxRunsPerDay + Cardinality(TeamRuns)
        /\ 0 <= Cardinality(Running') /\ 0 <= TokenBound
    BY <1>1, <1>2, QuotaConstants
  <2> QED
    BY <2>1, <2>3, <2>4, <2>5, <1>5, <1>6
<1>12. CASE ResetHourlyUsage
  <2>1. usage' = [concurrent |-> usage.concurrent, today |-> usage.today, tokens |-> 0]
    BY <1>12, <1>3 DEF ResetHourlyUsage
  <2>2. teamRun' = teamRun /\ renewed' = renewed
    BY <1>12 DEF ResetHourlyUsage
  <2>3. Running' = Running /\ Checked' = Checked
    BY <2>2, <1>10
  <2>4. 0 <= TokenBound
    BY <1>1
  <2> QED
    BY <2>1, <2>2, <2>3, <2>4, <1>3, <1>4, <1>5, <1>6
<1>13. CASE ResetDailyUsage
  <2>1. usage' = [concurrent |-> usage.concurrent, today |-> 0, tokens |-> usage.tokens]
    BY <1>13, <1>3 DEF ResetDailyUsage
  <2>2. teamRun' = teamRun /\ renewed' = renewed
    BY <1>13 DEF ResetDailyUsage
  <2>3. Running' = Running /\ Checked' = Checked
    BY <2>2, <1>10
  <2>4. 0 + Cardinality(Checked') <= MaxRunsPerDay + Cardinality(TeamRuns)
    BY <1>1, <1>2, QuotaConstants
  <2> QED
    BY <2>1, <2>2, <2>3, <2>4, <1>3, <1>4, <1>5, <1>6
<1>14. CASE UNCHANGED quotaVars
  <2>1. Running' = Running /\ Checked' = Checked
    BY <1>10, <1>14 DEF quotaVars
  <2> QED
    BY <2>1, <1>14 DEF quotaVars, QuotaInv, QuotaTypeOK
<1> QED
  BY <1>7, <1>8, <1>9, <1>11, <1>12, <1>13, <1>14 DEF QuotaNext

\* The enforcer's counters tell the truth about the runs, as QuotaInv states it.
THEOREM QuotaInvariant == QuotaSpec => []QuotaInv
  BY QuotaInvInit, QuotaInvStep, PTL DEF QuotaSpec

\* Unless the team was registered anew over live runs, CheckCanStartRun lets a run
\* pass only while fewer than MaxConcurrentRuns runs are really going.
THEOREM ChecksPassBelowQuota == QuotaSpec => AdmittedBelowQuota
<1>1. ASSUME QuotaInv, [QuotaNext]_quotaVars
      PROVE  [\A r \in TeamRuns :
                ~renewed /\ MaxConcurrentRuns > 0 /\ teamRun[r] = "idle" /\ teamRun'[r] = "checked"
                  => Cardinality(Running) < MaxConcurrentRuns]_quotaVars
  <2> SUFFICES ASSUME NEW r \in TeamRuns, QuotaNext, ~renewed, MaxConcurrentRuns > 0,
                      teamRun[r] = "idle", teamRun'[r] = "checked"
               PROVE  Cardinality(Running) < MaxConcurrentRuns
    BY <1>1
  <2>0. QuotaTypeOK /\ teamRun \in [TeamRuns -> {"idle", "checked", "running"}]
    BY <1>1 DEF QuotaInv, QuotaTypeOK
  <2>1. PICK q \in TeamRuns : CheckCanStartRun(q)
    BY <2>0 DEF QuotaNext, RecordRunStart, RecordRunEnd, RegisterTeam, ResetHourlyUsage, ResetDailyUsage
  <2>2. usage.concurrent < MaxConcurrentRuns
    <3>1. usage.concurrent \in Nat
      BY <2>0, QuotaTypes
    <3> QED
      BY <2>1, <3>1, QuotaConstants DEF CheckCanStartRun, Exceeds
  <2> QED
    BY <2>2, <1>1 DEF QuotaInv
<1> QED
  BY <1>1, QuotaInvariant, PTL DEF QuotaSpec, AdmittedBelowQuota

-----------------------------------------------------------------------------
(* legator run --wait.                                                     *)

\* A creation time in whole seconds is never later than the real one.
LEMMA WholeSecondEarlier ==
    ASSUME NEW t \in Int PROVE WholeSecond(t) \in Int /\ WholeSecond(t) <= t
  BY DEF WholeSecond

\* The conjuncts of WaitTypeOK, one by one.
LEMMA WaitTypes ==
    ASSUME WaitTypeOK
    PROVE  /\ clock \in Int
           /\ waiter.written \in Int /\ waiter.triggerTime \in Int
           /\ waiter.reported \subseteq WaitRuns
           /\ \A r \in WaitRuns : agentRuns[r].created \in Int
<1>1. Instants \subseteq Int
  BY WaitConstants DEF Instants, Never
<1>2. waiter.written \in Instants /\ waiter.triggerTime \in Instants /\ waiter.reported \subseteq WaitRuns
  BY DEF WaitTypeOK, WaiterRec
<1>3. \A r \in WaitRuns : agentRuns[r].created \in Instants
  BY DEF WaitTypeOK, AgentRunRec
<1>4. clock \in Int
  BY WaitConstants DEF WaitTypeOK
<1> QED
  BY <1>1, <1>2, <1>3, <1>4

\* A run that the poll takes for new was created after the write, or through the
\* API server at most two seconds before it.
LEMMA NewIsLater ==
    ASSUME WaitTypeOK, waiter.written <= waiter.triggerTime, NEW r \in WaitRuns, IsNew(r)
    PROVE  agentRuns[r].created >= waiter.written - (IF waiter.mode = "kube" THEN 0 ELSE 4)
<1>1. waiter.written \in Int /\ waiter.triggerTime \in Int /\ agentRuns[r].created \in Int
  BY WaitTypes
<1>2. CreationTimestamp(r) \in Int /\ CreationTimestamp(r) <= agentRuns[r].created
  BY <1>1, WholeSecondEarlier DEF CreationTimestamp
<1>3. CASE waiter.mode = "kube"
  <2>1. CreationTimestamp(r) > waiter.triggerTime
    BY <1>3 DEF IsNew
  <2> QED
    BY <2>1, <1>1, <1>2, <1>3
<1>4. CASE waiter.mode # "kube"
  <2>1. CreationTimestamp(r) >= waiter.triggerTime - 4
    BY <1>4 DEF IsNew
  <2> QED
    BY <2>1, <1>1, <1>2, <1>4
<1> QED
  BY <1>3, <1>4

\* The initial state satisfies the invariant.
LEMMA WaitInvInit ==
    WaitInit => WaitInv
<1> SUFFICES ASSUME WaitInit PROVE WaitInv
  OBVIOUS
<1>1. Never \in Instants /\ Never <= 0 /\ 0 \in 0 .. Horizon /\ 0 \in PollCounts
  BY WaitConstants DEF Instants, Never, PollCounts
<1>2. waiter \in WaiterRec
  BY <1>1 DEF WaitInit, WaiterRec
<1>3. agentRuns \in [WaitRuns -> AgentRunRec]
  BY <1>1 DEF WaitInit, AgentRunRec, WaitPhases
<1>4. waiter.pc = "start" /\ waiter.reported = {} /\ waiter.written = Never /\ clock = 0
  BY DEF WaitInit
<1> QED
  BY <1>1, <1>2, <1>3, <1>4 DEF WaitInv, WaitTypeOK, ReportsALaterRun

\* Every step of the command, the operator and the clock preserves the invariant.
LEMMA WaitInvStep ==
    WaitInv /\ [WaitNext]_waitVars => WaitInv'
<1> SUFFICES ASSUME WaitInv, [WaitNext]_waitVars PROVE WaitInv'
  OBVIOUS
<1>0. /\ WaitTypeOK /\ clock \in 0 .. Horizon /\ waiter \in WaiterRec
      /\ agentRuns \in [WaitRuns -> AgentRunRec]
  BY DEF WaitInv, WaitTypeOK
<1>1. /\ clock \in Int /\ waiter.written \in Int /\ waiter.triggerTime \in Int
      /\ waiter.reported \subseteq WaitRuns /\ clock \in Instants
  BY <1>0, WaitTypes, WaitConstants DEF Instants, Never
<1>2. /\ waiter.written <= clock
      /\ waiter.pc \in {"polling", "exit0", "exit1"} => waiter.written <= waiter.triggerTime
      /\ waiter.pc \in {"start", "triggered", "polling"} => waiter.reported = {}
      /\ \A r \in waiter.reported : agentRuns[r].phase \in {"Succeeded", "Failed"}
      /\ ReportsALaterRun
  BY DEF WaitInv
<1>3. ASSUME NEW mode \in {"kube", "api"}, TriggerRun(mode) PROVE WaitInv'
  <2>1. /\ waiter' = [waiter EXCEPT !.pc = "triggered", !.mode = mode, !.written = clock]
        /\ clock' = clock /\ agentRuns' = agentRuns /\ waiter.pc = "start"
    BY <1>3 DEF TriggerRun
  <2>2. waiter' \in WaiterRec
    BY <2>1, <1>0, <1>1 DEF WaiterRec
  <2>3. waiter'.pc = "triggered" /\ waiter'.written = clock /\ waiter'.reported = waiter.reported
    BY <2>1, <1>0 DEF WaiterRec
  <2>4. waiter'.reported = {} /\ waiter'.written <= clock'
    BY <2>1, <2>3, <1>1, <1>2
  <2> QED
    BY <2>1, <2>2, <2>3, <2>4, <1>0 DEF WaitInv, WaitTypeOK, ReportsALaterRun
<1>4. CASE NoteTriggerTime
  <2>1. /\ waiter' = [waiter EXCEPT !.pc = "polling", !.triggerTime = clock]
        /\ clock' = clock /\ agentRuns' = agentRuns /\ waiter.pc = "triggered"
    BY <1>4 DEF NoteTriggerTime
  <2>2. waiter' \in WaiterRec
    BY <2>1, <1>0, <1>1 DEF WaiterRec
  <2>3. waiter'.pc = "polling" /\ waiter'.written = waiter.written /\ waiter'.triggerTime = clock
        /\ waiter'.reported = waiter.reported
    BY <2>1, <1>0 DEF WaiterRec
  <2>4. waiter'.reported = {} /\ waiter'.written <= clock' /\ waiter'.written <= waiter'.triggerTime
    BY <2>1, <2>3, <1>2
  <2> QED
    BY <2>1, <2>2, <2>3, <2>4, <1>0 DEF WaitInv, WaitTypeOK, ReportsALaterRun
<1>5. CASE PollRuns
  <2>0. waiter.pc = "polling" /\ clock' = clock /\ agentRuns' = agentRuns
    BY <1>5 DEF PollRuns
  <2>1. waiter.written <= waiter.triggerTime /\ waiter.reported = {}
    BY <2>0, <1>2
  <2>2. ASSUME NEW r \in WaitRuns, agentRuns[r].phase \in {"Succeeded", "Failed"}, IsNew(r),
               waiter' = [waiter EXCEPT !.reported = {r},
                            !.pc = IF agentRuns[r].phase = "Succeeded" THEN "exit0" ELSE "exit1"]
        PROVE  WaitInv'
    <3>1. waiter' \in WaiterRec
      BY <2>2, <1>0 DEF WaiterRec
    <3>2. /\ waiter'.pc = (IF agentRuns[r].phase = "Succeeded" THEN "exit0" ELSE "exit1")
          /\ waiter'.reported = {r} /\ waiter'.written = waiter.written
          /\ waiter'.triggerTime = waiter.triggerTime /\ waiter'.mode = waiter.mode
      BY <2>2, <1>0 DEF WaiterRec
    <3>3. agentRuns[r].created >= waiter.written - (IF waiter.mode = "kube" THEN 0 ELSE 4)
      BY <2>1, <2>2, <1>0, NewIsLater
    <3>4. ReportsALaterRun'
      BY <3>2, <3>3, <2>0 DEF ReportsALaterRun
    <3>5. waiter'.pc \notin {"start", "triggered", "polling"}
      BY <3>2
    <3> QED
      BY <3>1, <3>2, <3>4, <3>5, <2>0, <2>1, <2>2, <1>0, <1>2 DEF WaitInv, WaitTypeOK
  <2>3. ASSUME waiter.polls < MaxPolls, waiter' = [waiter EXCEPT !.polls = waiter.polls + 1]
        PROVE  WaitInv'
    <3>1. waiter.polls + 1 \in PollCounts
      <4>1. waiter.polls \in PollCounts
        BY <1>0 DEF WaiterRec
      <4> QED
        BY <4>1, <2>3, WaitConstants DEF PollCounts
    <3>2. waiter' \in WaiterRec
      BY <2>3, <3>1, <1>0 DEF WaiterRec
    <3>3. /\ waiter'.pc = waiter.pc /\ waiter'.reported = waiter.reported
          /\ waiter'.written = waiter.written /\ waiter'.triggerTime = waiter.triggerTime
      BY <2>3, <1>0 DEF WaiterRec
    <3> QED
      BY <3>2, <3>3, <2>0, <2>1, <1>0, <1>2 DEF WaitInv, WaitTypeOK, ReportsALaterRun
  <2>4. ASSUME waiter' = [waiter EXCEPT !.pc = "exit1"] PROVE WaitInv'
    <3>2. waiter' \in WaiterRec
      BY <2>4, <1>0 DEF WaiterRec
    <3>3. /\ waiter'.pc = "exit1" /\ waiter'.reported = waiter.reported
          /\ waiter'.written = waiter.written /\ waiter'.triggerTime = waiter.triggerTime
      BY <2>4, <1>0 DEF WaiterRec
    <3> QED
      BY <3>2, <3>3, <2>0, <2>1, <1>0, <1>2 DEF WaitInv, WaitTypeOK, ReportsALaterRun
  <2> QED
    BY <1>5, <2>2, <2>3, <2>4 DEF PollRuns
<1>6. ASSUME NEW r \in WaitRuns, NEW run \in AgentRunRec, agentRuns[r].phase \notin {"Succeeded", "Failed"},
             agentRuns' = [agentRuns EXCEPT ![r] = run], clock' = clock, waiter' = waiter
      PROVE  WaitInv'
  <2>1. agentRuns' \in [WaitRuns -> AgentRunRec]
    BY <1>0, <1>6
  <2>2. r \notin waiter.reported
    BY <1>2, <1>6
  <2>3. \A q \in waiter.reported : agentRuns'[q] = agentRuns[q]
    BY <2>2, <1>0, <1>1, <1>6
  <2> QED
    BY <2>1, <2>3, <1>0, <1>2, <1>6 DEF WaitInv, WaitTypeOK, ReportsALaterRun
<1>7. ASSUME NEW r \in WaitRuns, RunAppears(r) PROVE WaitInv'
  <2>1. [created |-> clock, phase |-> "Pending"] \in AgentRunRec
    BY <1>1 DEF AgentRunRec, WaitPhases
  <2> QED
    BY <2>1, <1>6, <1>7 DEF RunAppears
<1>8. ASSUME NEW r \in WaitRuns, NEW phase \in WaitPhases, RunMoves(r, phase) PROVE WaitInv'
  <2>1. [agentRuns[r] EXCEPT !.phase = phase] \in AgentRunRec
    BY <1>0 DEF AgentRunRec
  <2>2. agentRuns' = [agentRuns EXCEPT ![r] = [agentRuns[r] EXCEPT !.phase = phase]]
    BY <1>8 DEF RunMoves
  <2>3. agentRuns[r].phase \notin {"Succeeded", "Failed"} /\ clock' = clock /\ waiter' = waiter
    BY <1>8 DEF RunMoves
  <2> QED
    BY <2>1, <2>2, <2>3, <1>6
<1>9. CASE WaitTick
  <2>1. clock' = clock + 1 /\ clock < Horizon /\ waiter' = waiter /\ agentRuns' = agentRuns
    BY <1>9 DEF WaitTick
  <2>2. clock' \in 0 .. Horizon /\ waiter.written <= clock'
    BY <2>1, <1>0, <1>1, <1>2, WaitConstants
  <2> QED
    BY <2>1, <2>2, <1>0, <1>2 DEF WaitInv, WaitTypeOK, ReportsALaterRun
<1>10. CASE UNCHANGED waitVars
  BY <1>10 DEF waitVars, WaitInv, WaitTypeOK, ReportsALaterRun
<1> QED
  BY <1>3, <1>4, <1>5, <1>7, <1>8, <1>9, <1>10 DEF WaitNext

\* The command keeps the invariant WaitInv, for any horizon and number of polls.
THEOREM WaitInvariant == WaitSpec => []WaitInv
  BY WaitInvInit, WaitInvStep, PTL DEF WaitSpec

\* legator run --wait never reports a run that was there before its trigger, save
\* for the two seconds it tolerates through the API server, and exits with 0
\* exactly when the run it reports succeeded.
THEOREM WaitReportsItsRun == WaitSpec => []ReportsALaterRun
<1>1. WaitInv => ReportsALaterRun
  BY DEF WaitInv
<1> QED
  BY <1>1, WaitInvariant, PTL

-----------------------------------------------------------------------------
(* The tools with connections of their own.                                *)

\* What ToolInv says of a call, as a fact about the record.
ToolCallSound(call) ==
    /\ call.pc \in {"connect", "session", "running"} =>
         /\ call.host \in SshHosts
         /\ ~call.truncated /\ call.left = 0 /\ call.rows = 0 /\ call.bytes = 0
    /\ call.pc \in {"connect", "session"} => call.ran = 0
    /\ call.pc = "running" => call.ran = 1
    /\ call.pc = "rows" =>
         /\ call.command = <<>> /\ ~call.truncated
         /\ call.rows + call.left <= MaxRows + 1 /\ call.rows <= MaxRows
         /\ call.bytes < MaxBytes + call.rowSize
    /\ call.ran <= 1
    /\ call.pc = "done" /\ call.command # <<>> =>
         (call.ran = 1) <=> (call.result \in {"output", "timeout"})
    /\ call.pc = "done" /\ call.command = <<>> /\ call.result = "output" =>
         /\ (call.truncated <=> call.left > 0)
         /\ call.rows <= MaxRows /\ call.bytes < MaxBytes + call.rowSize

\* ToolInv is the type invariant and that fact about the call in progress.
LEMMA ToolInvIs ==
    ToolInv <=> ToolTypeOK /\ ToolCallSound(toolCall)
  BY DEF ToolInv, ToolCallSound, ResultTellsWhatRan, CommandRunsOnce, TruncationIsTold

\* The limits are natural numbers, and nothing started or read is within them.
LEMMA ToolNumbers ==
    /\ MaxRows \in Nat /\ MaxBytes \in Nat /\ MaxRows > 0 /\ MaxBytes > 0
    /\ 0 \in Rows /\ 0 \in Starts /\ 1 \in Starts
    /\ Rows \subseteq Nat /\ Starts \subseteq Nat /\ RowSizes \subseteq Nat
  BY ToolConstants DEF Rows, Starts

\* A call starts from nothing.
LEMMA NoToolCallSound ==
    /\ NoToolCall \in ToolCallRec /\ ToolCallSound(NoToolCall)
<1>1. NoToolCall \in ToolCallRec
  BY ToolNumbers DEF NoToolCall, ToolCallRec
<1>2. NoToolCall.pc = "idle" /\ NoToolCall.ran = 0
  BY DEF NoToolCall
<1> QED
  BY <1>1, <1>2 DEF ToolCallSound

\* The initial state satisfies the invariant.
LEMMA ToolInvInit ==
    ToolInit => ToolInv
  BY NoToolCallSound, ToolInvIs DEF ToolInit, ToolTypeOK

\* ExecuteSSH starts a sound call, or returns a blocked one.
LEMMA ExecuteSSHStep ==
    ASSUME ToolInv, NEW h \in SshHosts, NEW cmd \in SshCommands, ExecuteSSH(h, cmd)
    PROVE  toolCall' \in ToolCallRec /\ ToolCallSound(toolCall')
<1>1. CASE Blocked(h, cmd)
  <2>1. toolCall' = [NoToolCall EXCEPT !.pc = "done", !.host = h, !.command = cmd, !.result = "blocked"]
    BY <1>1 DEF ExecuteSSH
  <2>2. toolCall' \in ToolCallRec
    BY <2>1, NoToolCallSound DEF ToolCallRec
  <2>3. toolCall'.pc = "done" /\ toolCall'.ran = 0 /\ toolCall'.result = "blocked"
    BY <2>1 DEF NoToolCall
  <2> QED
    BY <2>2, <2>3 DEF ToolCallSound
<1>2. CASE ~Blocked(h, cmd)
  <2>1. toolCall' = [NoToolCall EXCEPT !.pc = "connect", !.host = h, !.command = cmd]
    BY <1>2 DEF ExecuteSSH
  <2>2. toolCall' \in ToolCallRec
    BY <2>1, NoToolCallSound DEF ToolCallRec
  <2>3. /\ toolCall'.pc = "connect" /\ toolCall'.host = h /\ toolCall'.ran = 0
        /\ toolCall'.truncated = FALSE /\ toolCall'.left = 0 /\ toolCall'.rows = 0 /\ toolCall'.bytes = 0
    BY <2>1 DEF NoToolCall
  <2> QED
    BY <2>2, <2>3 DEF ToolCallSound
<1> QED
  BY <1>1, <1>2

\* A call of ssh.exec goes on: to another place before its command, to the start of
\* the command, or from there or from an error to its end.
LEMMA SshCallGoesOn ==
    ASSUME NEW call \in ToolCallRec, ToolCallSound(call),
           call.pc \in {"connect", "session", "running"}
    PROVE  /\ \A pc \in {"connect", "session"}, retried \in BOOLEAN : call.ran = 0 =>
                LET new == [call EXCEPT !.pc = pc, !.retried = retried]
                IN new \in ToolCallRec /\ ToolCallSound(new)
           /\ call.ran = 0 =>
                LET new == [call EXCEPT !.pc = "running", !.ran = 1]
                IN new \in ToolCallRec /\ ToolCallSound(new)
           /\ \A result \in {"output", "error", "timeout"} :
                ((call.ran = 1) <=> (result \in {"output", "timeout"})) =>
                  LET new == [call EXCEPT !.pc = "done", !.result = result]
                  IN new \in ToolCallRec /\ ToolCallSound(new)
<1>0. /\ call.host \in SshHosts /\ call.truncated = FALSE
      /\ call.left = 0 /\ call.rows = 0 /\ call.bytes = 0
  BY DEF ToolCallSound, ToolCallRec
<1>1. ASSUME NEW pc \in {"connect", "session"}, NEW retried \in BOOLEAN, call.ran = 0,
             NEW new, new = [call EXCEPT !.pc = pc, !.retried = retried]
      PROVE  new \in ToolCallRec /\ ToolCallSound(new)
  <2>1. new \in ToolCallRec
    BY <1>1 DEF ToolCallRec
  <2>2. /\ new.pc = pc /\ new.host = call.host /\ new.truncated = FALSE /\ new.ran = 0
        /\ new.left = 0 /\ new.rows = 0 /\ new.bytes = 0
    BY <1>0, <1>1 DEF ToolCallRec
  <2> QED
    BY <2>1, <2>2, <1>0 DEF ToolCallSound
<1>2. ASSUME call.ran = 0, NEW new, new = [call EXCEPT !.pc = "running", !.ran = 1]
      PROVE  new \in ToolCallRec /\ ToolCallSound(new)
  <2>1. new \in ToolCallRec
    BY <1>2, ToolNumbers DEF ToolCallRec
  <2>2. /\ new.pc = "running" /\ new.host = call.host /\ new.truncated = FALSE /\ new.ran = 1
        /\ new.left = 0 /\ new.rows = 0 /\ new.bytes = 0
    BY <1>0, <1>2 DEF ToolCallRec
  <2> QED
    BY <2>1, <2>2, <1>0 DEF ToolCallSound
<1>3. ASSUME NEW result \in {"output", "error", "timeout"},
             (call.ran = 1) <=> (result \in {"output", "timeout"}),
             NEW new, new = [call EXCEPT !.pc = "done", !.result = result]
      PROVE  new \in ToolCallRec /\ ToolCallSound(new)
  <2>1. new \in ToolCallRec
    BY <1>3 DEF ToolCallRec
  <2>2. /\ new.pc = "done" /\ new.truncated = FALSE /\ new.ran = call.ran /\ new.result = result
        /\ new.left = 0 /\ new.rows = 0 /\ new.bytes = 0 /\ new.rowSize = call.rowSize
    BY <1>0, <1>3 DEF ToolCallRec
  <2>3. new.rowSize \in Nat
    BY <2>1, ToolNumbers DEF ToolCallRec
  <2>4. new.rows <= MaxRows /\ new.bytes < MaxBytes + new.rowSize /\ ~(new.left > 0)
    BY <2>2, <2>3, ToolNumbers
  <2>5. new.ran <= 1
    BY <2>2 DEF ToolCallSound
  <2>6. new.truncated <=> new.left > 0
    BY <2>2, <2>4
  <2>7. (new.ran = 1) <=> (new.result \in {"output", "timeout"})
    BY <2>2, <1>3
  <2> QED
    BY <2>1, <2>2, <2>4, <2>5, <2>6, <2>7 DEF ToolCallSound
<1> QED
  BY <1>1, <1>2, <1>3

\* ExecuteSQL starts to read rows, or returns without a result.
LEMMA ExecuteSQLStep ==
    ASSUME NEW kind \in QueryKinds, NEW suspicious \in BOOLEAN, NEW n \in Rows, NEW size \in RowSizes,
           ExecuteSQL(kind, suspicious, n, size)
    PROVE  toolCall' \in ToolCallRec /\ ToolCallSound(toolCall')
<1>1. ASSUME NEW result \in {"blocked", "error"},
             toolCall' = [NoToolCall EXCEPT !.pc = "done", !.result = result]
      PROVE  toolCall' \in ToolCallRec /\ ToolCallSound(toolCall')
  <2>1. toolCall' \in ToolCallRec
    BY <1>1, NoToolCallSound DEF ToolCallRec
  <2>2. /\ toolCall'.pc = "done" /\ toolCall'.ran = 0 /\ toolCall'.result = result
        /\ toolCall'.command = <<>>
    BY <1>1 DEF NoToolCall
  <2> QED
    BY <2>1, <2>2 DEF ToolCallSound
<1>2. ASSUME toolCall' = [NoToolCall EXCEPT !.pc = "rows", !.left = n, !.rowSize = size]
      PROVE  toolCall' \in ToolCallRec /\ ToolCallSound(toolCall')
  <2>1. toolCall' \in ToolCallRec
    BY <1>2, NoToolCallSound DEF ToolCallRec
  <2>2. /\ toolCall'.pc = "rows" /\ toolCall'.ran = 0 /\ toolCall'.command = <<>>
        /\ toolCall'.truncated = FALSE /\ toolCall'.rows = 0 /\ toolCall'.bytes = 0
        /\ toolCall'.left = n /\ toolCall'.rowSize = size
    BY <1>2 DEF NoToolCall
  <2>3. 0 + n <= MaxRows + 1 /\ 0 <= MaxRows /\ 0 < MaxBytes + size
    BY ToolNumbers DEF Rows
  <2> QED
    BY <2>1, <2>2, <2>3 DEF ToolCallSound
<1> QED
  BY <1>1, <1>2 DEF ExecuteSQL

\* One round of formatSQLResults: the end of the rows, a limit, a row, or an error.
LEMMA FormatStep ==
    ASSUME ToolInv, formatSQLResults
    PROVE  toolCall' \in ToolCallRec /\ ToolCallSound(toolCall')
<1>0. toolCall \in ToolCallRec /\ ToolCallSound(toolCall) /\ toolCall.pc = "rows"
  BY ToolInvIs DEF ToolTypeOK, formatSQLResults
<1>1. /\ toolCall.command = <<>> /\ toolCall.truncated = FALSE
      /\ toolCall.rows + toolCall.left <= MaxRows + 1 /\ toolCall.rows <= MaxRows
      /\ toolCall.bytes < MaxBytes + toolCall.rowSize /\ toolCall.ran <= 1
  BY <1>0 DEF ToolCallSound, ToolCallRec
<1>2. /\ toolCall.left \in Nat /\ toolCall.rows \in Nat /\ toolCall.bytes \in Nat
      /\ toolCall.rowSize \in Nat
  BY <1>0, ToolNumbers DEF ToolCallRec
<1>3. ASSUME NEW truncated \in BOOLEAN, NEW result \in {"output", "error"},
             toolCall' = [toolCall EXCEPT !.pc = "done", !.truncated = truncated, !.result = result],
             result = "output" => (truncated <=> toolCall.left > 0)
      PROVE  toolCall' \in ToolCallRec /\ ToolCallSound(toolCall')
  <2>1. toolCall' \in ToolCallRec
    BY <1>3, <1>0 DEF ToolCallRec
  <2>2. /\ toolCall'.pc = "done" /\ toolCall'.ran = toolCall.ran /\ toolCall'.command = <<>>
        /\ toolCall'.truncated = truncated /\ toolCall'.rows = toolCall.rows
        /\ toolCall'.bytes = toolCall.bytes /\ toolCall'.left = toolCall.left
        /\ toolCall'.rowSize = toolCall.rowSize /\ toolCall'.result = result
    BY <1>3, <1>0, <1>1 DEF ToolCallRec
  <2> QED
    BY <2>1, <2>2, <1>1, <1>3 DEF ToolCallSound
<1>4. ASSUME toolCall.left = 0, toolCall' = [toolCall EXCEPT !.pc = "done", !.result = "output"]
      PROVE  toolCall' \in ToolCallRec /\ ToolCallSound(toolCall')
  <2>1. toolCall' = [toolCall EXCEPT !.pc = "done", !.truncated = FALSE, !.result = "output"]
    BY <1>0, <1>1, <1>4 DEF ToolCallRec
  <2>2. ~(toolCall.left > 0)
    BY <1>4
  <2> QED
    BY <2>1, <2>2, <1>3
<1>5. ASSUME toolCall' = [toolCall EXCEPT !.pc = "done", !.result = "error"]
      PROVE  toolCall' \in ToolCallRec /\ ToolCallSound(toolCall')
  <2>1. toolCall' = [toolCall EXCEPT !.pc = "done", !.truncated = FALSE, !.result = "error"]
    BY <1>0, <1>1, <1>5 DEF ToolCallRec
  <2> QED
    BY <2>1, <1>3
<1>6. ASSUME toolCall.left # 0,
             toolCall' = [toolCall EXCEPT !.pc = "done", !.truncated = TRUE, !.result = "output"]
      PROVE  toolCall' \in ToolCallRec /\ ToolCallSound(toolCall')
  <2>1. toolCall.left > 0
    BY <1>2, <1>6
  <2> QED
    BY <2>1, <1>3, <1>6
<1>7. ASSUME toolCall.left # 0, ~(toolCall.rows >= MaxRows), ~(toolCall.bytes >= MaxBytes),
             toolCall' = [toolCall EXCEPT !.left = toolCall.left - 1, !.rows = toolCall.rows + 1,
                                          !.bytes = toolCall.bytes + toolCall.rowSize]
      PROVE  toolCall' \in ToolCallRec /\ ToolCallSound(toolCall')
  <2> DEFINE left == toolCall.left - 1
             rows == toolCall.rows + 1
             bytes == toolCall.bytes + toolCall.rowSize
  <2>1. left \in Rows /\ rows \in Rows /\ bytes \in Nat
    <3>1. toolCall.left \in Rows
      BY <1>0 DEF ToolCallRec
    <3> QED
      BY <3>1, <1>2, <1>7, ToolNumbers DEF Rows
  <2>2. rows + left <= MaxRows + 1 /\ rows <= MaxRows /\ bytes < MaxBytes + toolCall.rowSize
    <3>1. /\ toolCall.rows + toolCall.left <= MaxRows + 1 /\ ~(toolCall.rows >= MaxRows)
          /\ ~(toolCall.bytes >= MaxBytes) /\ MaxRows \in Nat /\ MaxBytes \in Nat
      BY <1>1, <1>7, ToolNumbers
    <3> QED
      BY <1>2, <3>1
  <2>3. toolCall' = [toolCall EXCEPT !.left = left, !.rows = rows, !.bytes = bytes]
    BY <1>7
  <2> HIDE DEF left, rows, bytes
  <2>4. toolCall' \in ToolCallRec
    BY <2>1, <2>3, <1>0 DEF ToolCallRec
  <2>5. /\ toolCall'.pc = "rows" /\ toolCall'.ran = toolCall.ran /\ toolCall'.command = <<>>
        /\ toolCall'.truncated = FALSE /\ toolCall'.rows = rows /\ toolCall'.bytes = bytes
        /\ toolCall'.left = left /\ toolCall'.rowSize = toolCall.rowSize
    BY <2>3, <1>0, <1>1 DEF ToolCallRec
  <2> QED
    BY <2>2, <2>4, <2>5, <1>1 DEF ToolCallSound
<1> QED
  BY <1>4, <1>5, <1>6, <1>7 DEF formatSQLResults

\* Every step of the tools, of the hosts and of the connections preserves the
\* invariant.
LEMMA ToolInvStep ==
    ToolInv /\ [ToolNext]_toolVars => ToolInv'
<1> SUFFICES ASSUME ToolInv, [ToolNext]_toolVars PROVE ToolInv'
  OBVIOUS
<1>0. /\ toolCall \in ToolCallRec /\ ToolCallSound(toolCall)
      /\ connections \in [SshHosts -> {"none", "live", "stale"}] /\ stillRunning \subseteq SshHosts
  BY ToolInvIs DEF ToolTypeOK
<1>1. ASSUME toolCall' \in ToolCallRec, ToolCallSound(toolCall'),
             connections' \in [SshHosts -> {"none", "live", "stale"}], stillRunning' \subseteq SshHosts
      PROVE  ToolInv'
  BY <1>1 DEF ToolInv, ToolTypeOK, ToolCallSound, ResultTellsWhatRan, CommandRunsOnce, TruncationIsTold
<1>2. ASSUME NEW h \in SshHosts, NEW cmd \in SshCommands, ExecuteSSH(h, cmd) PROVE ToolInv'
  BY <1>0, <1>1, <1>2, ExecuteSSHStep DEF ExecuteSSH
<1>3. CASE getConnection
  <2>1. toolCall.pc = "connect" /\ toolCall.host \in SshHosts /\ toolCall.ran = 0 /\ toolCall.retried \in BOOLEAN
    BY <1>0, <1>3 DEF getConnection, ToolCallSound, ToolCallRec
  <2>2. connections' \in [SshHosts -> {"none", "live", "stale"}] /\ stillRunning' = stillRunning
    BY <1>0, <1>3 DEF getConnection
  <2>3. ASSUME toolCall' = [toolCall EXCEPT !.pc = "session"]
        PROVE  toolCall' \in ToolCallRec /\ ToolCallSound(toolCall')
    <3>1. toolCall' = [toolCall EXCEPT !.pc = "session", !.retried = toolCall.retried]
      BY <2>3, <1>0 DEF ToolCallRec
    <3> QED
      BY <3>1, <2>1, <1>0, SshCallGoesOn
  <2>4. ASSUME toolCall' = [toolCall EXCEPT !.pc = "done", !.result = "error"]
        PROVE  toolCall' \in ToolCallRec /\ ToolCallSound(toolCall')
    <3>1. (toolCall.ran = 1) <=> ("error" \in {"output", "timeout"})
      BY <2>1
    <3> QED
      BY <3>1, <2>1, <2>4, <1>0, SshCallGoesOn
  <2> QED
    BY <2>2, <2>3, <2>4, <1>0, <1>1, <1>3 DEF getConnection
<1>4. ASSUME NEW ok \in BOOLEAN, NewSession(ok) PROVE ToolInv'
  <2>1. toolCall.pc = "session" /\ toolCall.host \in SshHosts /\ toolCall.ran = 0
    BY <1>0, <1>4 DEF NewSession, ToolCallSound
  <2>2. connections' \in [SshHosts -> {"none", "live", "stale"}] /\ stillRunning' = stillRunning
    BY <1>0, <1>4 DEF NewSession
  <2>3. ASSUME toolCall' = [toolCall EXCEPT !.pc = "running", !.ran = toolCall.ran + 1]
        PROVE  toolCall' \in ToolCallRec /\ ToolCallSound(toolCall')
    <3>1. toolCall.ran + 1 = 1
      BY <2>1
    <3>2. toolCall' = [toolCall EXCEPT !.pc = "running", !.ran = 1]
      BY <2>3, <3>1
    <3> QED
      BY <3>2, <2>1, <1>0, SshCallGoesOn
  <2>4. ASSUME toolCall' = [toolCall EXCEPT !.pc = "connect", !.retried = TRUE]
        PROVE  toolCall' \in ToolCallRec /\ ToolCallSound(toolCall')
    BY <2>1, <2>4, <1>0, SshCallGoesOn
  <2>5. ASSUME toolCall' = [toolCall EXCEPT !.pc = "done", !.result = "error"]
        PROVE  toolCall' \in ToolCallRec /\ ToolCallSound(toolCall')
    <3>1. (toolCall.ran = 1) <=> ("error" \in {"output", "timeout"})
      BY <2>1
    <3> QED
      BY <3>1, <2>1, <2>5, <1>0, SshCallGoesOn
  <2> QED
    BY <2>2, <2>3, <2>4, <2>5, <1>0, <1>1, <1>4 DEF NewSession
<1>5. ASSUME NEW ok \in BOOLEAN, SshRunEnds(ok) PROVE ToolInv'
  <2>1. toolCall.pc = "running" /\ toolCall.ran = 1
    BY <1>0, <1>5 DEF SshRunEnds, ToolCallSound
  <2>2. toolCall' = [toolCall EXCEPT !.pc = "done", !.result = "output"]
        /\ connections' = connections /\ stillRunning' = stillRunning
    BY <1>5 DEF SshRunEnds
  <2>3. toolCall' \in ToolCallRec /\ ToolCallSound(toolCall')
    BY <2>1, <2>2, <1>0, SshCallGoesOn
  <2> QED
    BY <2>2, <2>3, <1>0, <1>1
<1>6. CASE SshTimeout
  <2>1. toolCall.pc = "running" /\ toolCall.ran = 1 /\ toolCall.host \in SshHosts
    BY <1>0, <1>6 DEF SshTimeout, ToolCallSound
  <2>2. toolCall' = [toolCall EXCEPT !.pc = "done", !.result = "timeout"]
        /\ connections' = connections /\ stillRunning' = stillRunning \cup {toolCall.host}
    BY <1>6 DEF SshTimeout
  <2>3. toolCall' \in ToolCallRec /\ ToolCallSound(toolCall')
    BY <2>1, <2>2, <1>0, SshCallGoesOn
  <2>4. stillRunning' \subseteq SshHosts
    BY <2>1, <2>2, <1>0
  <2> QED
    BY <2>2, <2>3, <2>4, <1>0, <1>1
<1>7. ASSUME NEW h \in SshHosts, OrphanEnds(h) PROVE ToolInv'
  BY <1>0, <1>1, <1>7 DEF OrphanEnds
<1>8. ASSUME NEW h \in SshHosts, PeerGoesAway(h) PROVE ToolInv'
  BY <1>0, <1>1, <1>8 DEF PeerGoesAway
<1>9. ASSUME NEW kind \in QueryKinds, NEW suspicious \in BOOLEAN, NEW n \in Rows, NEW size \in RowSizes,
             ExecuteSQL(kind, suspicious, n, size)
      PROVE  ToolInv'
  <2>1. connections' = connections /\ stillRunning' = stillRunning
    BY <1>9 DEF ExecuteSQL
  <2> QED
    BY <2>1, <1>0, <1>1, <1>9, ExecuteSQLStep
<1>10. CASE formatSQLResults
  <2>1. connections' = connections /\ stillRunning' = stillRunning
    BY <1>10 DEF formatSQLResults
  <2> QED
    BY <2>1, <1>0, <1>1, <1>10, FormatStep
<1>11. CASE ToolReturns
  BY <1>0, <1>1, <1>11, NoToolCallSound DEF ToolReturns
<1>12. CASE UNCHANGED toolVars
  BY <1>0, <1>1, <1>12 DEF toolVars
<1> QED
  BY <1>2, <1>3, <1>4, <1>5, <1>6, <1>7, <1>8, <1>9, <1>10, <1>11, <1>12 DEF ToolNext

\* The tools keep ToolInv, for any hosts, commands and limits.
THEOREM ToolInvariant == ToolSpec => []ToolInv
  BY ToolInvInit, ToolInvStep, PTL DEF ToolSpec

\* A result of ssh.exec or sql.query tells what happened: the reconnect never
\* starts a command twice, and a result says so exactly when rows are missing.
THEOREM ToolResultsTell == ToolSpec => []ResultTellsWhatRan
<1>1. ToolInv => ResultTellsWhatRan
  BY DEF ToolInv
<1> QED
  BY <1>1, ToolInvariant, PTL

-----------------------------------------------------------------------------
(* Loading skills.                                                         *)

\* The conjuncts of SkillInv, one by one.
LEMMA SkillTypes ==
    ASSUME SkillInv
    PROVE  /\ published \in [SkillSources -> AnyVersion] /\ blobs \subseteq Versions
           /\ push \in PushRec /\ skillCache \in [SkillSources -> EntryRec]
           /\ load \in [Loads -> LoadRec]
           /\ push.pc # "idle" => push.version \in Versions
           /\ \A s \in SkillSources : skillCache[s].version # 0 =>
                Whole(s, skillCache[s].version, skillCache[s].actions, blobs)
           /\ \A l \in Loads : LoadSound(load[l], blobs)
  BY DEF SkillInv, SkillTypeOK, LoadedSkillsSound, OnlyWholeSkills

\* The invariant after a step, from what it says of the cache and of each call.
LEMMA SkillInvAfter ==
    ASSUME published' \in [SkillSources -> AnyVersion], blobs' \subseteq Versions,
           push' \in PushRec, skillCache' \in [SkillSources -> EntryRec],
           load' \in [Loads -> LoadRec],
           push'.pc # "idle" => push'.version \in Versions,
           \A s \in SkillSources : skillCache'[s].version # 0 =>
             Whole(s, skillCache'[s].version, skillCache'[s].actions, blobs'),
           \A l \in Loads : LoadSound(load'[l], blobs')
    PROVE  SkillInv'
<1>1. OnlyWholeSkills'
  BY DEF OnlyWholeSkills, LoadSound
<1>2. CacheRespectsTtl'
  BY DEF CacheRespectsTtl, LoadSound
<1> QED
  BY <1>1, <1>2 DEF SkillInv, SkillTypeOK, LoadedSkillsSound

\* A call that has nothing yet, and an entry that is not there.
LEMMA NothingLoaded ==
    /\ NoEntry \in EntryRec /\ NoEntry.version = 0
    /\ \A pc \in {"idle", "pull", "done"}, s \in SkillSources :
         LET call == [pc |-> pc, source |-> s, version |-> 0, actions |-> FALSE, cachedFor |-> 0]
         IN call \in LoadRec /\ \A stored : LoadSound(call, stored)
    /\ (CHOOSE s \in SkillSources : TRUE) \in SkillSources
<1>1. 0 \in Ages /\ 0 <= CacheTtl
  BY SkillConstants DEF Ages
<1>2. NoEntry \in EntryRec /\ NoEntry.version = 0
  BY <1>1 DEF NoEntry, EntryRec, AnyVersion
<1>3. ASSUME NEW pc \in {"idle", "pull", "done"}, NEW s \in SkillSources, NEW stored,
             NEW call, call = [pc |-> pc, source |-> s, version |-> 0, actions |-> FALSE, cachedFor |-> 0]
      PROVE  call \in LoadRec /\ LoadSound(call, stored)
  <2>1. call \in LoadRec
    BY <1>1, <1>3 DEF LoadRec, AnyVersion
  <2>2. call.pc = pc /\ call.version = 0 /\ call.cachedFor = 0
    BY <1>3
  <2>3. pc \notin {"layers", "parse", "put"}
    OBVIOUS
  <2> QED
    BY <2>1, <2>2, <2>3, <1>1 DEF LoadSound
<1>4. (CHOOSE s \in SkillSources : TRUE) \in SkillSources
  BY SkillConstants
<1> QED
  BY <1>2, <1>3, <1>4

\* The initial state satisfies the invariant.
LEMMA SkillInvInit ==
    SkillInit => SkillInv
<1> SUFFICES ASSUME SkillInit PROVE SkillInv
  OBVIOUS
<1>1. push \in PushRec /\ push.pc = "idle"
  BY NothingLoaded DEF SkillInit, PushRec, AnyVersion
<1>2. published \in [SkillSources -> AnyVersion] /\ blobs \subseteq Versions
  BY DEF SkillInit, AnyVersion
<1>3. skillCache \in [SkillSources -> EntryRec] /\ \A s \in SkillSources : skillCache[s].version = 0
  BY NothingLoaded DEF SkillInit
<1>4. load \in [Loads -> LoadRec] /\ \A l \in Loads : LoadSound(load[l], blobs)
  <2> DEFINE call == [pc |-> "idle", source |-> CHOOSE s \in SkillSources : TRUE,
                      version |-> 0, actions |-> FALSE, cachedFor |-> 0]
  <2>1. call \in LoadRec /\ LoadSound(call, blobs)
    BY NothingLoaded
  <2>2. load = [l \in Loads |-> call]
    BY DEF SkillInit
  <2> HIDE DEF call
  <2> QED
    BY <2>1, <2>2
<1>5. OnlyWholeSkills /\ CacheRespectsTtl
  BY <1>3, <1>4 DEF OnlyWholeSkills, CacheRespectsTtl, LoadSound
<1> QED
  BY <1>1, <1>2, <1>3, <1>4, <1>5 DEF SkillInv, SkillTypeOK, LoadedSkillsSound

\* The registry only gains blobs: what was whole stays whole, and a sound call
\* stays sound.
LEMMA MoreBlobs ==
    ASSUME NEW stored, NEW more, stored \subseteq more
    PROVE  /\ \A s, v, actions : Whole(s, v, actions, stored) => Whole(s, v, actions, more)
           /\ \A call : LoadSound(call, stored) => LoadSound(call, more)
<1>1. \A s, v, actions : Whole(s, v, actions, stored) => Whole(s, v, actions, more)
  BY DEF Whole
<1>2. \A call : LoadSound(call, stored) => LoadSound(call, more)
  BY <1>1 DEF LoadSound
<1> QED
  BY <1>1, <1>2

\* A step that changes one call of Load, and nothing else.
LEMMA OneLoad ==
    ASSUME SkillInv, NEW l \in Loads, NEW new \in LoadRec, LoadSound(new, blobs),
           load' = [load EXCEPT ![l] = new],
           UNCHANGED <<published, blobs, push, skillCache>>
    PROVE  SkillInv'
<1>1. load' \in [Loads -> LoadRec] /\ \A k \in Loads : LoadSound(load'[k], blobs)
  BY SkillTypes
<1> QED
  BY <1>1, SkillTypes, SkillInvAfter

\* A step that changes the cache, and no call.
LEMMA OneCache ==
    ASSUME SkillInv, skillCache' \in [SkillSources -> EntryRec],
           \A s \in SkillSources : skillCache'[s].version # 0 =>
             Whole(s, skillCache'[s].version, skillCache'[s].actions, blobs),
           UNCHANGED <<published, blobs, push, load>>
    PROVE  SkillInv'
  BY SkillTypes, SkillInvAfter

\* Load: a stub, an entry that is fresh, or a pull.
LEMMA LoadStep ==
    ASSUME SkillInv, NEW l \in Loads, NEW s \in SkillSources, Load(l, s)
    PROVE  SkillInv'
<1>0. /\ skillCache[s] \in EntryRec
      /\ skillCache[s].version # 0 => Whole(s, skillCache[s].version, skillCache[s].actions, blobs)
  BY SkillTypes
<1>1. UNCHANGED <<published, blobs, push, skillCache>>
  BY DEF Load
<1>2. ASSUME NEW pc \in {"pull", "done"},
             load' = [load EXCEPT ![l] = [pc |-> pc, source |-> s, version |-> 0,
                                          actions |-> FALSE, cachedFor |-> 0]]
      PROVE  SkillInv'
  <2> DEFINE new == [pc |-> pc, source |-> s, version |-> 0, actions |-> FALSE, cachedFor |-> 0]
  <2>1. new \in LoadRec /\ LoadSound(new, blobs)
    BY NothingLoaded
  <2>2. load' = [load EXCEPT ![l] = new]
    BY <1>2
  <2> HIDE DEF new
  <2> QED
    BY <2>1, <2>2, <1>1, OneLoad
<1>3. ASSUME Fresh(s),
             load' = [load EXCEPT ![l] = [pc |-> "done", source |-> s, version |-> skillCache[s].version,
                                          actions |-> skillCache[s].actions,
                                          cachedFor |-> skillCache[s].age]]
      PROVE  SkillInv'
  <2> DEFINE new == [pc |-> "done", source |-> s, version |-> skillCache[s].version,
                     actions |-> skillCache[s].actions, cachedFor |-> skillCache[s].age]
  <2>1. new \in LoadRec
    BY <1>0 DEF LoadRec, EntryRec
  <2>2. /\ new.pc = "done" /\ new.source = s /\ new.version = skillCache[s].version
        /\ new.actions = skillCache[s].actions /\ new.cachedFor = skillCache[s].age
    OBVIOUS
  <2>3. CacheTtl # 0 => skillCache[s].age <= CacheTtl
    BY <1>3 DEF Fresh
  <2>4. load' = [load EXCEPT ![l] = new]
    BY <1>3
  <2> HIDE DEF new
  <2>5. LoadSound(new, blobs)
    BY <2>2, <2>3, <1>0 DEF LoadSound
  <2> QED
    BY <2>1, <2>4, <2>5, <1>1, OneLoad
<1> QED
  BY <1>2, <1>3 DEF Load

\* Pull: the version that the source names now, to be fetched or parsed.
LEMMA PullStep ==
    ASSUME SkillInv, NEW l \in Loads, Pull(l) PROVE SkillInv'
<1>0. /\ load[l] \in LoadRec /\ LoadSound(load[l], blobs) /\ load[l].source \in SkillSources
      /\ published[load[l].source] \in AnyVersion
  BY SkillTypes DEF LoadRec
<1>1. UNCHANGED <<published, blobs, push, skillCache>>
  BY DEF Pull
<1>2. ASSUME NEW v \in AnyVersion, NEW pc \in {"layers", "parse"}, v # 0,
             pc = "parse" => SourceKind[load[l].source] # "oci",
             load' = [load EXCEPT ![l] = [load[l] EXCEPT !.version = v, !.pc = pc]]
      PROVE  SkillInv'
  <2> DEFINE new == [load[l] EXCEPT !.version = v, !.pc = pc]
  <2>1. new \in LoadRec
    BY <1>0 DEF LoadRec
  <2>2. new.pc = pc /\ new.source = load[l].source /\ new.version = v /\ new.cachedFor = load[l].cachedFor
    BY <1>0 DEF LoadRec
  <2>3. load' = [load EXCEPT ![l] = new]
    BY <1>2
  <2> HIDE DEF new
  <2>4. LoadSound(new, blobs)
    BY <2>2, <1>0, <1>2 DEF LoadSound
  <2> QED
    BY <2>1, <2>3, <2>4, <1>1, OneLoad
<1>3. ASSUME load' = [load EXCEPT ![l] = [load[l] EXCEPT !.pc = "error"]] PROVE SkillInv'
  <2> DEFINE new == [load[l] EXCEPT !.pc = "error"]
  <2>1. new \in LoadRec /\ new.pc = "error" /\ new.cachedFor = load[l].cachedFor
    BY <1>0 DEF LoadRec
  <2>2. load' = [load EXCEPT ![l] = new]
    BY <1>3
  <2> HIDE DEF new
  <2>3. LoadSound(new, blobs)
    BY <2>1, <1>0 DEF LoadSound
  <2> QED
    BY <2>1, <2>2, <2>3, <1>1, OneLoad
<1>4. CASE load' = [load EXCEPT ![l].pc = "error"]
  BY <1>3, <1>4
<1>5. CASE /\ published[load[l].source] # 0
           /\ load' = [load EXCEPT ![l] = [load[l] EXCEPT !.version = published[load[l].source],
                        !.pc = IF SourceKind[load[l].source] = "oci" THEN "layers" ELSE "parse"]]
  <2>1. PICK pc \in {"layers", "parse"} :
          pc = IF SourceKind[load[l].source] = "oci" THEN "layers" ELSE "parse"
    OBVIOUS
  <2>2. pc = "parse" => SourceKind[load[l].source] # "oci"
    BY <2>1
  <2> QED
    BY <2>1, <2>2, <1>0, <1>2, <1>5
<1> QED
  BY <1>4, <1>5 DEF Pull

\* PullLayers: the content is there, or the call fails.
LEMMA PullLayersStep ==
    ASSUME SkillInv, NEW l \in Loads, PullLayers(l) PROVE SkillInv'
<1>0. load[l] \in LoadRec /\ LoadSound(load[l], blobs) /\ load[l].pc = "layers"
  BY SkillTypes DEF PullLayers
<1>1. UNCHANGED <<published, blobs, push, skillCache>>
  BY DEF PullLayers
<1>2. PICK pc \in {"parse", "error"} :
        /\ load' = [load EXCEPT ![l] = [load[l] EXCEPT !.pc = pc]]
        /\ pc = "parse" => load[l].version \in blobs
  BY DEF PullLayers
<1> DEFINE new == [load[l] EXCEPT !.pc = pc]
<1>3. /\ new \in LoadRec /\ new.pc = pc /\ new.cachedFor = load[l].cachedFor
      /\ new.version = load[l].version /\ new.source = load[l].source
  BY <1>0 DEF LoadRec
<1>4. load' = [load EXCEPT ![l] = new]
  BY <1>2
<1> HIDE DEF new
<1>5. LoadSound(new, blobs)
  BY <1>0, <1>2, <1>3 DEF LoadSound
<1> QED
  BY <1>1, <1>3, <1>4, <1>5, OneLoad

\* Parse: a skill that is whole, with its actions as the content allows, or an error.
LEMMA ParseStep ==
    ASSUME SkillInv, NEW l \in Loads, Parse(l) PROVE SkillInv'
<1> DEFINE kind == SourceKind[load[l].source]
           content == Contents[load[l].version]
           ok == content = "ok"
<1>0. load[l] \in LoadRec /\ LoadSound(load[l], blobs) /\ load[l].pc = "parse"
  BY SkillTypes DEF Parse
<1>1. UNCHANGED <<published, blobs, push, skillCache>>
  BY DEF Parse
<1>2. PICK pc \in {"error", "done", "put"} :
        /\ load' = [load EXCEPT ![l] = [load[l] EXCEPT !.actions = ok, !.pc = pc]]
        /\ pc # "error" => content # "no-skill" /\ (content = "bad-actions" => kind = "oci")
  BY DEF Parse
<1> DEFINE new == [load[l] EXCEPT !.actions = ok, !.pc = pc]
<1>3. new \in LoadRec
  <2>1. ok \in BOOLEAN
    OBVIOUS
  <2> HIDE DEF ok
  <2> QED
    BY <2>1, <1>0 DEF LoadRec
<1>4. /\ new.pc = pc /\ new.cachedFor = load[l].cachedFor /\ new.actions = ok
      /\ new.version = load[l].version /\ new.source = load[l].source
  <2> HIDE DEF ok
  <2> QED
    BY <1>0 DEF LoadRec
<1>5. load' = [load EXCEPT ![l] = new]
  BY <1>2
<1>6. pc # "error" => Whole(load[l].source, load[l].version, ok, blobs)
  <2>1. kind = "oci" => load[l].version \in blobs
    BY <1>0 DEF LoadSound
  <2>2. content = "bad-actions" => ~ok
    OBVIOUS
  <2> QED
    BY <2>1, <2>2, <1>2 DEF Whole
<1> HIDE DEF new, ok, kind, content
<1>7. LoadSound(new, blobs)
  BY <1>0, <1>2, <1>4, <1>6 DEF LoadSound
<1> QED
  BY <1>1, <1>3, <1>5, <1>7, OneLoad

\* Put: the entry of the source becomes the skill that the call has parsed.
LEMMA PutStep ==
    ASSUME SkillInv, NEW l \in Loads, Put(l) PROVE SkillInv'
<1> DEFINE entry == [version |-> load[l].version, actions |-> load[l].actions, age |-> 0]
           new == [load[l] EXCEPT !.pc = "done"]
<1>0. load[l] \in LoadRec /\ LoadSound(load[l], blobs) /\ load[l].pc = "put"
  BY SkillTypes DEF Put
<1>1. /\ skillCache' = [skillCache EXCEPT ![load[l].source] = entry]
      /\ load' = [load EXCEPT ![l] = new] /\ UNCHANGED <<published, blobs, push>>
  BY DEF Put
<1>2. /\ new \in LoadRec /\ new.pc = "done" /\ new.cachedFor = load[l].cachedFor
      /\ new.version = load[l].version /\ new.source = load[l].source /\ new.actions = load[l].actions
  BY <1>0 DEF LoadRec
<1>3. entry \in EntryRec /\ entry.version = load[l].version /\ entry.actions = load[l].actions
  <2>1. 0 \in Ages
    BY SkillConstants DEF Ages
  <2> QED
    BY <2>1, <1>0 DEF LoadRec, EntryRec
<1>4. load[l].version # 0 /\ Whole(load[l].source, load[l].version, load[l].actions, blobs)
  BY <1>0 DEF LoadSound
<1> HIDE DEF entry, new
<1>5. LoadSound(new, blobs)
  BY <1>0, <1>2, <1>4 DEF LoadSound
<1>6. load' \in [Loads -> LoadRec] /\ \A k \in Loads : LoadSound(load'[k], blobs)
  BY <1>1, <1>2, <1>5, SkillTypes
<1>7. skillCache' \in [SkillSources -> EntryRec]
  BY <1>1, <1>3, SkillTypes
<1>8. \A s \in SkillSources : skillCache'[s].version # 0 =>
        Whole(s, skillCache'[s].version, skillCache'[s].actions, blobs)
  BY <1>1, <1>3, <1>4, SkillTypes
<1> QED
  BY <1>1, <1>6, <1>7, <1>8, SkillTypes, SkillInvAfter

\* Push: blobs before the tag, and only more of them.
LEMMA PushStep ==
    ASSUME SkillInv, Push PROVE SkillInv'
<1>0. /\ push \in PushRec /\ push.source \in SkillSources /\ push.version \in AnyVersion
      /\ skillCache' = skillCache /\ load' = load
  BY SkillTypes DEF Push, PushRec
<1>1. push' \in PushRec /\ (push'.pc # "idle" => push'.version \in Versions)
  BY <1>0, SkillTypes DEF Push, PushRec
<1>2. published' \in [SkillSources -> AnyVersion]
  BY <1>0, SkillTypes DEF Push
<1>3. blobs \subseteq blobs'
  BY DEF Push
<1>4. blobs' \subseteq Versions
  BY <1>0, SkillTypes DEF Push
<1>5. \A s \in SkillSources : skillCache'[s].version # 0 =>
        Whole(s, skillCache'[s].version, skillCache'[s].actions, blobs')
  BY <1>0, <1>3, SkillTypes, MoreBlobs
<1>6. \A l \in Loads : LoadSound(load'[l], blobs')
  BY <1>0, <1>3, SkillTypes, MoreBlobs
<1> QED
  BY <1>0, <1>1, <1>2, <1>4, <1>5, <1>6, SkillTypes, SkillInvAfter

\* The cache's own steps: an entry is dropped, or grows older.
LEMMA CacheSteps ==
    ASSUME SkillInv, \/ \E s \in SkillSources : Invalidate(s)
                     \/ CleanExpired
                     \/ CacheTick
    PROVE  SkillInv'
<1> DEFINE Same(s) ==
             \/ skillCache'[s] = NoEntry
             \/ /\ skillCache'[s] \in EntryRec /\ skillCache'[s].version = skillCache[s].version
                /\ skillCache'[s].actions = skillCache[s].actions
<1>0. \A s \in SkillSources : skillCache[s] \in EntryRec
  BY SkillTypes
<1>1. ASSUME NEW entry \in EntryRec, ~(entry.age > CacheTtl)
      PROVE  LET older == [entry EXCEPT !.age = @ + 1]
             IN /\ older \in EntryRec /\ older.version = entry.version
                /\ older.actions = entry.actions
  <2>1. entry.age + 1 \in Ages
    <3>1. entry.age \in Ages
      BY DEF EntryRec
    <3> QED
      BY <3>1, <1>1, SkillConstants DEF Ages
  <2> QED
    BY <2>1 DEF EntryRec
<1>2. UNCHANGED <<published, blobs, push, load>>
  BY DEF Invalidate, CleanExpired, CacheTick
<1>3. DOMAIN skillCache' = SkillSources /\ skillCache' = [s \in SkillSources |-> skillCache'[s]]
  BY SkillTypes DEF Invalidate, CleanExpired, CacheTick
<1>4. \A s \in SkillSources : Same(s)
  <2>1. ASSUME NEW s \in SkillSources, Invalidate(s) PROVE \A q \in SkillSources : Same(q)
    BY <2>1, <1>0, SkillTypes DEF Invalidate
  <2>2. CASE CleanExpired
    BY <2>2, <1>0 DEF CleanExpired
  <2>3. CASE CacheTick
    BY <2>3, <1>0, <1>1 DEF CacheTick
  <2> QED
    BY <2>1, <2>2, <2>3
<1>5. \A s \in SkillSources : skillCache'[s] \in EntryRec
  BY <1>4, NothingLoaded
<1>6. \A s \in SkillSources : skillCache'[s].version # 0 =>
        Whole(s, skillCache'[s].version, skillCache'[s].actions, blobs)
  BY <1>4, NothingLoaded, SkillTypes
<1> HIDE DEF Same
<1> QED
  BY <1>2, <1>3, <1>5, <1>6, OneCache

\* Every step of the publisher, of a commit, of a load and of the cache preserves
\* the invariant.
LEMMA SkillInvStep ==
    SkillInv /\ [SkillNext]_skillVars => SkillInv'
<1> SUFFICES ASSUME SkillInv, [SkillNext]_skillVars PROVE SkillInv'
  OBVIOUS
<1>1. ASSUME NEW s \in SkillSources, NEW v \in Versions, Pack(s, v) PROVE SkillInv'
  <2>1. push' = [pc |-> "blobs", source |-> s, version |-> v] /\ UNCHANGED <<published, blobs, skillCache, load>>
    BY <1>1 DEF Pack
  <2>2. push' \in PushRec /\ push'.version \in Versions
    BY <2>1 DEF PushRec, AnyVersion
  <2> QED
    BY <2>1, <2>2, SkillTypes, SkillInvAfter
<1>2. CASE Push
  BY <1>2, PushStep
<1>3. ASSUME NEW s \in SkillSources, NEW v \in Versions, Commit(s, v) PROVE SkillInv'
  <2>1. published' = [published EXCEPT ![s] = v] /\ UNCHANGED <<blobs, push, skillCache, load>>
    BY <1>3 DEF Commit
  <2>2. published' \in [SkillSources -> AnyVersion]
    BY <2>1, SkillTypes DEF AnyVersion
  <2> QED
    BY <2>1, <2>2, SkillTypes, SkillInvAfter
<1>4. ASSUME NEW l \in Loads, NEW s \in SkillSources, Load(l, s) PROVE SkillInv'
  BY <1>4, LoadStep
<1>5. ASSUME NEW l \in Loads, LoadReturns(l) PROVE SkillInv'
  <2> DEFINE new == [pc |-> "idle", source |-> CHOOSE s \in SkillSources : TRUE,
                     version |-> 0, actions |-> FALSE, cachedFor |-> 0]
  <2>1. new \in LoadRec /\ LoadSound(new, blobs)
    BY NothingLoaded
  <2>2. load' = [load EXCEPT ![l] = new] /\ UNCHANGED <<published, blobs, push, skillCache>>
    BY <1>5 DEF LoadReturns
  <2> HIDE DEF new
  <2> QED
    BY <2>1, <2>2, OneLoad
<1>6. ASSUME NEW l \in Loads, Pull(l) \/ PullLayers(l) \/ Parse(l) \/ Put(l) PROVE SkillInv'
  BY <1>6, PullStep, PullLayersStep, ParseStep, PutStep
<1>7. CASE UNCHANGED skillVars
  BY <1>7, SkillTypes, SkillInvAfter DEF skillVars
<1> QED
  BY <1>1, <1>2, <1>3, <1>4, <1>5, <1>6, <1>7, CacheSteps DEF SkillNext

\* The loader and its cache keep SkillInv, for any sources, versions, loads and
\* time-to-live.
THEOREM SkillInvariant == SkillSpec => []SkillInv
  BY SkillInvInit, SkillInvStep, PTL DEF SkillSpec

\* No load returns, and the cache never holds, half a skill, and nothing older than
\* the time-to-live is returned from the cache.
THEOREM SkillsAreSound == SkillSpec => []LoadedSkillsSound
<1>1. SkillInv => LoadedSkillsSound
  BY DEF SkillInv
<1> QED
  BY <1>1, SkillInvariant, PTL

-----------------------------------------------------------------------------
(* Reports and escalations.                                                *)

\* Every step of the reporter and of an escalation preserves the invariant.
LEMMA ReportInvStep ==
    ReportInv /\ [ReportNext]_reportVars => ReportInv'
<1> SUFFICES ASSUME ReportInv, [ReportNext]_reportVars PROVE ReportInv'
  OBVIOUS
<1> DEFINE ReportRec == [severity : {"none", "success", "failure", "escalation", "info"},
                         action : ReportActions,
                         todo : SUBSET DOMAIN ChannelTypes, errs : SUBSET DOMAIN ChannelTypes]
           EscalationRec == [pc : {"idle", "waiting", "returned"},
                             onTimeout : {"cancel", "proceed", "retry"},
                             sent : BOOLEAN, timedOut : BOOLEAN,
                             policy : {"none", "cancel", "proceed", "retry"},
                             err : BOOLEAN, live : BOOLEAN]
           ReportSound(r, registered) == r.todo \cup r.errs \subseteq registered /\ r.todo \cap r.errs = {}
           EscalationSound(e) ==
             /\ e.policy # "none" <=> e.timedOut
             /\ e.timedOut => e.pc = "returned" /\ e.policy = e.onTimeout
<1>0. /\ channels \subseteq DOMAIN ChannelTypes /\ report \in ReportRec /\ escalation \in EscalationRec
      /\ ReportSound(report, channels) /\ EscalationSound(escalation)
  BY DEF ReportInv, ReportTypeOK
<1>1. ASSUME channels' = channels, report' \in ReportRec, escalation' \in EscalationRec,
             ReportSound(report', channels), EscalationSound(escalation')
      PROVE  ReportInv'
  BY <1>0, <1>1 DEF ReportInv, ReportTypeOK
<1> HIDE DEF ReportSound, EscalationSound
<1>2. ASSUME NEW reporting \in Reportings, NEW phase \in ReportPhases, NEW findings \in BOOLEAN,
             ReportRun(reporting, phase, findings)
      PROVE  ReportInv'
  <2> DEFINE action == ShouldReport(reporting, phase, findings)
             severity == FromLegatorRun(phase)
  <2>1. action \in ReportActions
    <3>1. /\ reporting.onSuccess \in ReportActions /\ reporting.onFailure \in ReportActions
          /\ reporting.onFinding \in ReportActions
      BY DEF Reportings, DefaultReporting, ReportActions
    <3>2. "escalate" \in ReportActions /\ "silent" \in ReportActions
      BY DEF ReportActions
    <3>3. CASE phase = "Succeeded" /\ findings
      BY <3>1, <3>3 DEF ShouldReport
    <3>4. CASE phase = "Succeeded" /\ ~findings
      BY <3>1, <3>4 DEF ShouldReport
    <3>5. CASE phase = "Failed"
      BY <3>1, <3>5 DEF ShouldReport
    <3>6. CASE phase \in {"Escalated", "Blocked"}
      BY <3>2, <3>6 DEF ShouldReport
    <3>7. CASE phase = "Running"
      BY <3>2, <3>7 DEF ShouldReport
    <3> QED
      BY <3>3, <3>4, <3>5, <3>6, <3>7 DEF ReportPhases
  <2>2. severity \in {"none", "success", "failure", "escalation", "info"}
    BY DEF FromLegatorRun, ReportPhases
  <2>3. /\ report' = [severity |-> severity, action |-> action, errs |-> {},
                      todo |-> IF action = "silent" THEN {} ELSE channels]
        /\ channels' = channels /\ escalation' = escalation
    BY <1>2 DEF ReportRun
  <2> HIDE DEF action, severity
  <2>4. report' \in ReportRec
    BY <2>1, <2>2, <2>3, <1>0
  <2>5. ReportSound(report', channels)
    BY <2>3 DEF ReportSound
  <2> QED
    BY <2>3, <2>4, <2>5, <1>0, <1>1
<1>3. ASSUME NEW c \in channels, NEW status \in ReportStatuses, SendToAll(c, status) PROVE ReportInv'
  <2> DEFINE todo == report.todo \ {c}
             errs == IF ChannelSend(c, status) THEN report.errs ELSE report.errs \cup {c}
  <2>1. /\ c \in report.todo /\ channels' = channels /\ escalation' = escalation
        /\ report' = [report EXCEPT !.todo = todo, !.errs = errs]
    BY <1>3 DEF SendToAll
  <2>2. report.todo \cup report.errs \subseteq channels /\ report.todo \cap report.errs = {}
    BY <1>0 DEF ReportSound
  <2>3. /\ todo \cup errs \subseteq channels /\ todo \cap errs = {}
        /\ todo \in SUBSET DOMAIN ChannelTypes /\ errs \in SUBSET DOMAIN ChannelTypes
    BY <2>1, <2>2, <1>0
  <2> HIDE DEF todo, errs
  <2>4. report' \in ReportRec /\ report'.todo = todo /\ report'.errs = errs
    BY <2>1, <2>3, <1>0
  <2>5. ReportSound(report', channels)
    BY <2>3, <2>4 DEF ReportSound
  <2> QED
    BY <2>1, <2>4, <2>5, <1>0, <1>1
<1>4. ASSUME NEW configured \in BOOLEAN, NEW onTimeout \in {"cancel", "proceed", "retry"},
             NEW c \in DOMAIN ChannelTypes, NEW status \in ReportStatuses,
             Escalate(configured, onTimeout, c, status)
      PROVE  ReportInv'
  <2> DEFINE pc == IF configured THEN "waiting" ELSE "returned"
             isSent == configured /\ c \in channels /\ ChannelSend(c, status)
             err == configured /\ c \in channels /\ ~ChannelSend(c, status)
  <2>1. pc \in {"idle", "waiting", "returned"} /\ isSent \in BOOLEAN /\ err \in BOOLEAN
    OBVIOUS
  <2>2. /\ escalation' = [escalation EXCEPT !.onTimeout = onTimeout, !.pc = pc, !.sent = isSent, !.err = err]
        /\ escalation.pc = "idle" /\ channels' = channels /\ report' = report
    BY <1>4 DEF Escalate
  <2> HIDE DEF pc, isSent, err
  <2>3. escalation' \in EscalationRec
    BY <2>1, <2>2, <1>0
  <2>4. escalation'.policy = escalation.policy /\ escalation'.timedOut = escalation.timedOut
    BY <2>2, <1>0
  <2>5. escalation.timedOut = FALSE /\ escalation.policy = "none"
    BY <2>2, <1>0 DEF EscalationSound
  <2>6. EscalationSound(escalation')
    BY <2>4, <2>5 DEF EscalationSound
  <2> QED
    BY <2>2, <2>3, <2>6, <1>0, <1>1
<1>5. CASE RunContextEnds
  <2>1. escalation' = [escalation EXCEPT !.live = FALSE] /\ channels' = channels /\ report' = report
    BY <1>5 DEF RunContextEnds
  <2>2. /\ escalation' \in EscalationRec /\ escalation'.policy = escalation.policy
        /\ escalation'.timedOut = escalation.timedOut /\ escalation'.pc = escalation.pc
        /\ escalation'.onTimeout = escalation.onTimeout
    BY <2>1, <1>0
  <2>3. EscalationSound(escalation')
    BY <2>2, <1>0 DEF EscalationSound
  <2> QED
    BY <2>1, <2>2, <2>3, <1>0, <1>1
<1>6. CASE EscalationCancelled
  <2>1. /\ escalation' = [escalation EXCEPT !.pc = "returned", !.err = TRUE] /\ channels' = channels
        /\ report' = report /\ escalation.pc = "waiting"
    BY <1>6 DEF EscalationCancelled
  <2>2. /\ escalation' \in EscalationRec /\ escalation'.policy = escalation.policy
        /\ escalation'.timedOut = escalation.timedOut
    BY <2>1, <1>0
  <2>3. escalation.timedOut = FALSE /\ escalation.policy = "none"
    BY <2>1, <1>0 DEF EscalationSound
  <2>4. EscalationSound(escalation')
    BY <2>2, <2>3 DEF EscalationSound
  <2> QED
    BY <2>1, <2>2, <2>4, <1>0, <1>1
<1>7. CASE EscalationTimeout
  <2>1. /\ escalation' = [escalation EXCEPT !.pc = "returned", !.timedOut = TRUE,
                                            !.policy = escalation.onTimeout]
        /\ channels' = channels /\ report' = report
    BY <1>7 DEF EscalationTimeout
  <2>2. /\ escalation' \in EscalationRec /\ escalation'.pc = "returned" /\ escalation'.timedOut = TRUE
        /\ escalation'.policy = escalation.onTimeout /\ escalation'.onTimeout = escalation.onTimeout
        /\ escalation.onTimeout # "none"
    BY <2>1, <1>0
  <2>3. EscalationSound(escalation')
    BY <2>2 DEF EscalationSound
  <2> QED
    BY <2>1, <2>2, <2>3, <1>0, <1>1
<1>8. CASE EscalationReturned
  <2>1. escalation' = NoEscalation /\ channels' = channels /\ report' = report
    BY <1>8 DEF EscalationReturned
  <2>2. escalation' \in EscalationRec /\ EscalationSound(escalation')
    BY <2>1 DEF NoEscalation, EscalationSound
  <2> QED
    BY <2>1, <2>2, <1>0, <1>1
<1>9. CASE UNCHANGED reportVars
  BY <1>0, <1>1, <1>9 DEF reportVars
<1> QED
  BY <1>2, <1>3, <1>4, <1>5, <1>6, <1>7, <1>8, <1>9 DEF ReportNext

\* A report goes to each registered channel at most once, and a policy is there
\* exactly when the timeout of the escalation was waited out.
THEOREM ReportInvariant == ReportSpec => []ReportInv
<1>1. ReportInit => ReportInv
  BY DEF ReportInit, ReportInv, ReportTypeOK, NoReport, NoEscalation, ReportActions
<1> QED
  BY <1>1, ReportInvStep, PTL DEF ReportSpec

\* The escalation engine applies a policy only when it has waited its timeout out,
\* and then the configured one.
THEOREM PoliciesFollowTimeouts == ReportSpec => PolicyOnlyAfterTimeout
<1>1. ASSUME ReportInv, [ReportNext]_reportVars
      PROVE  [escalation.policy = "none" /\ escalation'.policy # "none"
                => escalation.pc = "waiting" /\ escalation'.timedOut
                   /\ escalation'.policy = escalation.onTimeout]_reportVars
  <2> SUFFICES ASSUME ReportNext, escalation.policy = "none", escalation'.policy # "none"
               PROVE  escalation.pc = "waiting" /\ escalation'.timedOut
                      /\ escalation'.policy = escalation.onTimeout
    BY <1>1
  <2>1. DOMAIN escalation = DOMAIN NoEscalation
    BY <1>1 DEF ReportInv, ReportTypeOK, NoEscalation
  <2>2. EscalationTimeout
    <3>1. ~RunContextEnds
      BY <2>1 DEF RunContextEnds, NoEscalation
    <3>2. ~EscalationCancelled
      BY <2>1 DEF EscalationCancelled, NoEscalation
    <3>3. ~EscalationReturned
      BY DEF EscalationReturned, NoEscalation
    <3>4. \A configured, onTimeout, c, status : ~Escalate(configured, onTimeout, c, status)
      BY <2>1 DEF Escalate, NoEscalation
    <3>5. escalation' # escalation
      OBVIOUS
    <3> QED
      BY <3>1, <3>2, <3>3, <3>4, <3>5 DEF ReportNext, ReportRun, SendToAll
  <2> QED
    BY <2>1, <2>2, <1>1 DEF EscalationTimeout, NoEscalation, ReportInv, ReportTypeOK
<1> QED
  BY <1>1, ReportInvariant, PTL DEF ReportSpec, PolicyOnlyAfterTimeout

-----------------------------------------------------------------------------
(* The inventory.                                                          *)

\* What a sync makes of a device has the type of one, and is known unless it was
\* not known before and is not listed.
LEMMA SyncedDevice ==
    ASSUME InventoryInv, NEW n \in DeviceNames, NEW s \in NodeStates
    PROVE  /\ SyncDevice(n, s) \in [known : BOOLEAN, online : BOOLEAN,
                                    health : {"unknown", "healthy", "unreachable"}]
           /\ SyncDevice(n, s).known \/ SyncDevice(n, s) = Unknown
<1>1. /\ devices[n] \in [known : BOOLEAN, online : BOOLEAN,
                         health : {"unknown", "healthy", "unreachable"}]
      /\ devices[n].known \/ devices[n] = Unknown
  BY DEF InventoryInv, InventoryTypeOK
<1>2. CASE s # "absent" /\ ~devices[n].known
  BY <1>2 DEF SyncDevice, nodeToDevice
<1>3. CASE s # "absent" /\ devices[n].known
  <2>1. SyncDevice(n, s) = [devices[n] EXCEPT !.online = s = "online"]
    BY <1>3 DEF SyncDevice
  <2> QED
    BY <1>1, <1>3, <2>1
<1>4. CASE s = "absent" /\ devices[n].known
  <2>1. SyncDevice(n, s) = [devices[n] EXCEPT !.online = FALSE, !.health = "unreachable"]
    BY <1>4 DEF SyncDevice
  <2> QED
    BY <1>1, <1>4, <2>1
<1>5. CASE s = "absent" /\ ~devices[n].known
  <2>1. SyncDevice(n, s) = devices[n]
    BY <1>5 DEF SyncDevice
  <2> QED
    BY <1>1, <2>1
<1> QED
  BY <1>2, <1>3, <1>4, <1>5

\* Every step keeps the invariant.
LEMMA InventoryInvStep == InventoryInv /\ [InventoryNext]_inventoryVars => InventoryInv'
<1> SUFFICES ASSUME InventoryInv, [InventoryNext]_inventoryVars PROVE InventoryInv'
  OBVIOUS
<1>1. ASSUME NEW n \in DeviceNames, NEW s \in NodeStates, NodeChanges(n, s)
      PROVE  InventoryInv'
  BY <1>1 DEF InventoryInv, InventoryTypeOK, NodeChanges
<1>2. CASE fetchNodes
  BY <1>2 DEF InventoryInv, InventoryTypeOK, fetchNodes
<1>3. CASE ApplySync
  <2>1. fetched \in [DeviceNames -> NodeStates]
    BY <1>3 DEF InventoryInv, InventoryTypeOK, ApplySync
  <2>2. \A n \in DeviceNames : fetched[n] \in NodeStates
    BY <2>1
  <2>3. \A n \in DeviceNames :
          /\ SyncDevice(n, fetched[n]) \in [known : BOOLEAN, online : BOOLEAN,
                                            health : {"unknown", "healthy", "unreachable"}]
          /\ SyncDevice(n, fetched[n]).known \/ SyncDevice(n, fetched[n]) = Unknown
    BY <2>2, SyncedDevice
  <2>4. /\ nodes' = nodes /\ fetched' = NoFetch
        /\ devices' = [n \in DeviceNames |-> SyncDevice(n, fetched[n])]
    BY <1>3 DEF ApplySync
  <2> QED
    BY <2>3, <2>4 DEF InventoryInv, InventoryTypeOK
<1>4. CASE LeaderChanges
  BY <1>4 DEF InventoryInv, InventoryTypeOK, LeaderChanges, Unknown
<1>5. CASE UNCHANGED inventoryVars
  BY <1>5 DEF InventoryInv, InventoryTypeOK, inventoryVars
<1> QED
  BY <1>1, <1>2, <1>3, <1>4, <1>5 DEF InventoryNext

\* The inventory shows nothing of a device that no sync has found, however the
\* nodes come and go during a sync and whoever leads.
THEOREM InventoryInvariant == InventorySpec => []InventoryInv
<1>1. InventoryInit => InventoryInv
  BY DEF InventoryInit, InventoryInv, InventoryTypeOK, NodeStates, Unknown
<1> QED
  BY <1>1, InventoryInvStep, PTL DEF InventorySpec

=============================================================================
