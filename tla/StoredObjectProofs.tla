------------------------- MODULE StoredObjectProofs -------------------------
(***************************************************************************)
(* Objects that several processes read through a cache and write later:    *)
(* the state of an agent, the AgentEvent, the agent behind the HTTP API,   *)
(* and the LegatorRuns the retention controller deletes. No write and no   *)
(* deletion, however old the copy it rests on, takes back what the others  *)
(* wrote, for any number of processes; the state tools implement a map     *)
(* with quotas.                                                            *)
(***************************************************************************)
EXTENDS AgentState, AgentEvents, Access, Retention, FiniteSetTheorems,
        WellFoundedInduction, NaturalsInduction, TLAPS

-----------------------------------------------------------------------------
(* AgentState. The map's operators.                                        *)

\* The map counts its keys the way the manager does.
LEMMA MapCardinality == \A S : Map!Cardinality(S) = Cardinality(S)
  BY DEF Map!Cardinality, Map!IsFiniteSet, Cardinality, IsFiniteSet

\* Removing keys keeps the rest of a map as it is.
LEMMA WithoutEntries ==
    ASSUME NEW m, Entries(m), NEW S
    PROVE  Entries(Map!Without(m, S))
<1> DEFINE n == Map!Without(m, S)
<1>1. DOMAIN n = DOMAIN m \ S /\ \A k \in DOMAIN n : n[k] = m[k]
  BY DEF Map!Without, Map!Restrict
<1>2. IsFiniteSet(DOMAIN n) /\ Cardinality(DOMAIN n) <= Cardinality(DOMAIN m)
  BY <1>1, FS_Subset DEF Entries
<1>3. Cardinality(DOMAIN n) \in Nat /\ Cardinality(DOMAIN m) \in Nat
  BY <1>2, FS_CardinalityType DEF Entries
<1>4. n = [k \in DOMAIN n |-> n[k]]
  BY DEF Map!Without, Map!Restrict
<1> QED
  BY <1>1, <1>2, <1>3, <1>4, StateConstants DEF Entries

\* A map that fits the quotas and got one more entry is a map of entries.
LEMMA WithEntries ==
    ASSUME NEW m, Entries(m), NEW k \in StateKeys, NEW e \in Map!Entry,
           Map!WithinQuota(Map!With(m, k, e))
    PROVE  Entries(Map!With(m, k, e))
<1> DEFINE n == Map!With(m, k, e)
<1>1. DOMAIN n = DOMAIN m \cup {k} /\ \A x \in DOMAIN n : n[x] = IF x = k THEN e ELSE m[x]
  BY DEF Map!With
<1>2. IsFiniteSet(DOMAIN n)
  BY <1>1, FS_AddElement DEF Entries
<1>3. n = [x \in DOMAIN n |-> n[x]]
  BY DEF Map!With
<1> QED
  BY <1>1, <1>2, <1>3, MapCardinality DEF Entries, Map!WithinQuota

\* Time changes neither the keys nor the sizes.
LEMMA AgedMap ==
    ASSUME NEW m, \A k \in DOMAIN m : m[k] \in Map!Entry
    PROVE  /\ DOMAIN Map!Aged(m) = DOMAIN m
           /\ \A k \in DOMAIN m : Map!Aged(m)[k] = [m[k] EXCEPT !.old = TRUE]
           /\ \A k \in DOMAIN m : /\ Map!Aged(m)[k] \in Map!Entry
                                  /\ Map!Aged(m)[k].size = m[k].size
                                  /\ Map!IsExpired(m[k]) => Map!IsExpired(Map!Aged(m)[k])
           /\ Map!Sizes(Map!Aged(m)) = Map!Sizes(m)
<1>1. DOMAIN Map!Aged(m) = DOMAIN m
  BY DEF Map!Aged
<1>2. \A k \in DOMAIN m : Map!Aged(m)[k] = [m[k] EXCEPT !.old = TRUE]
  BY DEF Map!Aged
<1>3. \A k \in DOMAIN m : /\ Map!Aged(m)[k] \in Map!Entry
                          /\ Map!Aged(m)[k].size = m[k].size
                          /\ Map!IsExpired(m[k]) => Map!IsExpired(Map!Aged(m)[k])
  BY <1>2 DEF Map!Entry, Map!IsExpired
<1>4. Map!Sizes(Map!Aged(m)) = Map!Sizes(m)
  BY <1>1, <1>3 DEF Map!Sizes
<1> QED
  BY <1>1, <1>2, <1>3, <1>4

\* So a map within its quotas stays within them.
LEMMA AgedEntries ==
    ASSUME NEW m, Entries(m)
    PROVE  /\ Entries(Map!Aged(m))
           /\ Map!WithinQuota(m) => Map!WithinQuota(Map!Aged(m))
<1>1. Map!Aged(m) = [k \in DOMAIN Map!Aged(m) |-> Map!Aged(m)[k]]
  BY DEF Map!Aged
<1>2. Map!SizeOf(Map!Aged(m)) = Map!SizeOf(m)
  BY AgedMap DEF Map!SizeOf, Entries
<1> QED
  BY <1>1, <1>2, AgedMap DEF Entries, Map!WithinQuota

\* Time passes over a removal and an addition alike.
LEMMA AgedCommutes ==
    ASSUME NEW m, Entries(m)
    PROVE  /\ \A S : Map!Aged(Map!Without(m, S)) = Map!Without(Map!Aged(m), S)
           /\ \A k : \A e \in Map!Entry :
                Map!Aged(Map!With(m, k, e)) = Map!With(Map!Aged(m), k, [e EXCEPT !.old = TRUE])
<1>1. ASSUME NEW S
      PROVE  Map!Aged(Map!Without(m, S)) = Map!Without(Map!Aged(m), S)
  BY DEF Map!Aged, Map!Without, Map!Restrict
<1>2. ASSUME NEW k, NEW e \in Map!Entry
      PROVE  Map!Aged(Map!With(m, k, e)) = Map!With(Map!Aged(m), k, [e EXCEPT !.old = TRUE])
  <2>1. DOMAIN Map!With(m, k, e) = DOMAIN m \cup {k}
    BY DEF Map!With
  <2>2. \A x \in DOMAIN m \cup {k} :
          Map!With(m, k, e)[x] = IF x = k THEN e ELSE m[x]
    BY DEF Map!With
  <2>3. Map!Aged(Map!With(m, k, e)) =
          [x \in DOMAIN m \cup {k} |-> [Map!With(m, k, e)[x] EXCEPT !.old = TRUE]]
    BY <2>1 DEF Map!Aged
  <2>4. Map!With(Map!Aged(m), k, [e EXCEPT !.old = TRUE]) =
          [x \in DOMAIN m \cup {k} |-> IF x = k THEN [e EXCEPT !.old = TRUE]
                                       ELSE Map!Aged(m)[x]]
    BY DEF Map!With, Map!Aged
  <2>5. \A x \in DOMAIN m \cup {k} :
          [Map!With(m, k, e)[x] EXCEPT !.old = TRUE] =
            IF x = k THEN [e EXCEPT !.old = TRUE] ELSE Map!Aged(m)[x]
    <3> TAKE x \in DOMAIN m \cup {k}
    <3>1. CASE x = k
      BY <2>2, <3>1, Zenon
    <3>2. CASE x # k
      <4>1. Map!Aged(m)[x] = [m[x] EXCEPT !.old = TRUE]
        BY <3>2 DEF Map!Aged
      <4>2. Map!With(m, k, e)[x] = m[x]
        BY <2>2, <3>2
      <4> QED
        BY <3>2, <4>1, <4>2, Zenon
    <3> QED
      BY <3>1, <3>2
  <2> QED
    BY <2>3, <2>4, <2>5, Zenon
<1> QED
  BY <1>1, <1>2

-----------------------------------------------------------------------------
(* The operations on a copy.                                               *)

\* What an operation writes is the outcome of one atomic operation of the
\* map on the copy it read.
LEMMA OutcomesAreOperations ==
    ASSUME NEW m, Entries(m), NEW total,
           NEW outcome \in Outcomes(m, total), outcome # NothingToWrite
    PROVE  CanBecome(m, outcome.entries)
<1>1. ASSUME NEW k \in StateKeys, NEW size \in ValueSizes, NEW t \in Ttls,
             outcome = SetOn(m, total, k, [size |-> size, ttl |-> t, old |-> FALSE])
      PROVE  CanBecome(m, outcome.entries)
  <2> DEFINE e == [size |-> size, ttl |-> t, old |-> FALSE]
             n == Map!With(m, k, e)
  <2>1. e \in Map!Entry /\ e.size = size
    BY DEF Map!Entry
  <2>2. /\ size <= MaxValueSize
        /\ k \in DOMAIN m \/ Cardinality(DOMAIN m) < MaxKeys
        /\ Map!SizeOf(n) <= MaxTotalSize
        /\ outcome.entries = n
    BY <1>1, <2>1 DEF SetOn
  <2>3. DOMAIN n = DOMAIN m \cup {k} /\ \A x \in DOMAIN n : n[x] = IF x = k THEN e ELSE m[x]
    BY DEF Map!With
  <2>4. Cardinality(DOMAIN n) <= MaxKeys
    <3>1. Cardinality(DOMAIN m) \in Nat
      BY FS_CardinalityType DEF Entries
    <3>2. CASE k \in DOMAIN m
      <4>1. DOMAIN n = DOMAIN m
        BY <2>3, <3>2
      <4> QED
        BY <4>1 DEF Entries
    <3>3. CASE k \notin DOMAIN m
      <4>1. Cardinality(DOMAIN m \cup {k}) = Cardinality(DOMAIN m) + 1
        BY <3>3, FS_AddElement DEF Entries
      <4> QED
        BY <2>2, <2>3, <3>1, <3>3, <4>1, StateConstants
    <3> QED
      BY <3>2, <3>3
  <2>5. \A x \in DOMAIN n : n[x].size <= MaxValueSize
    BY <2>1, <2>2, <2>3 DEF Entries
  <2>6. Map!WithinQuota(n)
    BY <2>2, <2>4, <2>5, MapCardinality DEF Map!WithinQuota
  <2> QED
    BY <2>1, <2>2, <2>6 DEF CanBecome
<1>2. ASSUME NEW k \in StateKeys, outcome = DeleteOn(m, total, k)
      PROVE  CanBecome(m, outcome.entries)
  BY <1>2 DEF DeleteOn, CanBecome
<1>3. ASSUME NEW k \in StateKeys, outcome = GetOn(m, total, k)
      PROVE  CanBecome(m, outcome.entries)
  <2>1. /\ k \in DOMAIN m /\ Map!IsExpired(m[k])
        /\ outcome.entries = Map!Without(m, {k})
    BY <1>3 DEF GetOn
  <2> QED
    BY <2>1 DEF CanBecome
<1>4. ASSUME outcome = ListKeysOn(m, total)
      PROVE  CanBecome(m, outcome.entries)
  <2> DEFINE S == {k \in DOMAIN m : Map!IsExpired(m[k])}
  <2>1. outcome.entries = Map!Without(m, S)
    BY <1>4 DEF ListKeysOn
  <2>2. S \in SUBSET DOMAIN m /\ \A k \in S : Map!IsExpired(m[k])
    OBVIOUS
  <2> QED
    BY <2>1, <2>2, Zenon DEF CanBecome
<1>5. \/ \E k \in StateKeys, n \in ValueSizes, t \in Ttls :
           outcome = SetOn(m, total, k, [size |-> n, ttl |-> t, old |-> FALSE])
      \/ \E k \in StateKeys : outcome = DeleteOn(m, total, k)
      \/ \E k \in StateKeys : outcome = GetOn(m, total, k)
      \/ outcome = ListKeysOn(m, total)
  <2> DEFINE Sets == {SetOn(m, total, k, [size |-> n, ttl |-> t, old |-> FALSE]) :
                        k \in StateKeys, n \in ValueSizes, t \in Ttls}
             Deletes == {DeleteOn(m, total, k) : k \in StateKeys}
             Gets == {GetOn(m, total, k) : k \in StateKeys}
  <2>1. outcome \in Sets \cup Deletes \cup Gets \cup {ListKeysOn(m, total)}
    <3>1. Outcomes(m, total) = Sets \cup Deletes \cup Gets \cup {ListKeysOn(m, total)}
      BY DEF Outcomes
    <3> HIDE DEF Sets, Deletes, Gets
    <3> QED
      BY <3>1
  <2>2. outcome \in Sets => \E k \in StateKeys, n \in ValueSizes, t \in Ttls :
          outcome = SetOn(m, total, k, [size |-> n, ttl |-> t, old |-> FALSE])
    OBVIOUS
  <2>3. /\ outcome \in Deletes => \E k \in StateKeys : outcome = DeleteOn(m, total, k)
        /\ outcome \in Gets => \E k \in StateKeys : outcome = GetOn(m, total, k)
    OBVIOUS
  <2> HIDE DEF Sets, Deletes, Gets
  <2> QED
    BY <2>1, <2>2, <2>3
<1> QED
  BY <1>1, <1>2, <1>3, <1>4, <1>5

\* An operation leaves a map of entries.
LEMMA CanBecomeEntries ==
    ASSUME NEW m, Entries(m), NEW n, CanBecome(m, n)
    PROVE  Entries(n)
  BY WithoutEntries, WithEntries DEF CanBecome

\* An operation computed before time passed is still one afterwards.
LEMMA CanBecomeAged ==
    ASSUME NEW m, Entries(m), NEW n, CanBecome(m, n)
    PROVE  CanBecome(Map!Aged(m), Map!Aged(n))
<1>1. ASSUME NEW k \in StateKeys, n = Map!Without(m, {k})
      PROVE  CanBecome(Map!Aged(m), Map!Aged(n))
  BY <1>1, AgedCommutes DEF CanBecome
<1>2. ASSUME NEW k \in StateKeys, NEW e \in Map!Entry,
             n = Map!With(m, k, e), Map!WithinQuota(n)
      PROVE  CanBecome(Map!Aged(m), Map!Aged(n))
  <2>1. [e EXCEPT !.old = TRUE] \in Map!Entry
    BY DEF Map!Entry
  <2>2. Map!WithinQuota(Map!Aged(n))
    BY <1>2, WithEntries, AgedEntries
  <2> QED
    BY <1>2, <2>1, <2>2, AgedCommutes DEF CanBecome
<1>3. ASSUME NEW S \in SUBSET DOMAIN m, \A k \in S : Map!IsExpired(m[k]),
             n = Map!Without(m, S)
      PROVE  CanBecome(Map!Aged(m), Map!Aged(n))
  <2>1. S \in SUBSET DOMAIN Map!Aged(m) /\ \A k \in S : Map!IsExpired(Map!Aged(m)[k])
    BY <1>3, AgedMap DEF Entries
  <2> QED
    BY <1>3, <2>1, AgedCommutes DEF CanBecome
<1> QED
  BY <1>1, <1>2, <1>3 DEF CanBecome

-----------------------------------------------------------------------------
(* The invariant and the refinement.                                       *)

\* Nothing is stored and no operation is under way at first.
LEMMA StateInvInit == StateInit => StateInv
<1> SUFFICES ASSUME StateInit PROVE StateInv
  OBVIOUS
<1>1. Entries(<<>>)
  <2>1. DOMAIN <<>> = {}
    OBVIOUS
  <2> QED
    BY <2>1, FS_EmptySet, StateConstants DEF Entries
<1> QED
  BY <1>1 DEF StateInit, StateInv, Object, NoStateCall

\* Every step of a run and of the environment preserves the invariant.
LEMMA StateInvStep ==
    ASSUME StateInv, [StateNext]_stateVars
    PROVE  StateInv'
<1> DEFINE A == agentState.entries
<1>1. ASSUME NEW r \in StateRuns, ReadCached(r)
      PROVE  StateInv'
  <2> PICK outcome \in Outcomes(stateCache.entries, stateCache.total) \ {NothingToWrite} :
             CallWith(r, outcome, stateCache.current)
    BY <1>1 DEF ReadCached
  <2>1. UNCHANGED <<agentState, stateCache>>
    BY <1>1 DEF ReadCached
  <2>2. /\ DOMAIN stateCall' = StateRuns
        /\ DOMAIN stateCall'[r] = DOMAIN NoStateCall
        /\ stateCall'[r].entries = outcome.entries
        /\ stateCall'[r].current = stateCache.current
        /\ \A q \in StateRuns \ {r} : stateCall'[q] = stateCall[q]
    BY DEF CallWith, StateInv, NoStateCall
  <2>3. stateCache.current => CanBecome(A, outcome.entries)
    BY OutcomesAreOperations DEF StateInv
  <2> QED
    BY <2>1, <2>2, <2>3 DEF StateInv
<1>2. ASSUME NEW r \in StateRuns, CreateState(r)
      PROVE  StateInv'
  <2>1. A = <<>> /\ \A q \in StateRuns : ~stateCall[q].current
    BY <1>2 DEF CreateState, StateInv
  <2>2. /\ agentState'.entries = A /\ agentState'.exists
        /\ DOMAIN agentState' = DOMAIN Object /\ UNCHANGED stateCache
        /\ ~stateCache.current
    BY <1>2, <2>1 DEF CreateState, Object, StateInv
  <2>3. PICK outcome \in Outcomes(A, 0) :
          \/ UNCHANGED stateCall
          \/ outcome # NothingToWrite /\ CallWith(r, outcome, TRUE)
    BY <1>2, <2>1 DEF CreateState
  <2>4. CASE UNCHANGED stateCall
    BY <2>2, <2>4 DEF StateInv
  <2>5. CASE outcome # NothingToWrite /\ CallWith(r, outcome, TRUE)
    <3>1. /\ DOMAIN stateCall' = StateRuns
          /\ DOMAIN stateCall'[r] = DOMAIN NoStateCall
          /\ stateCall'[r].entries = outcome.entries
          /\ \A q \in StateRuns \ {r} : stateCall'[q] = stateCall[q]
      BY <2>5 DEF CallWith, StateInv, NoStateCall
    <3>2. CanBecome(A, outcome.entries)
      BY <2>5, OutcomesAreOperations DEF StateInv
    <3> QED
      BY <2>1, <2>2, <3>1, <3>2 DEF StateInv
  <2> QED
    BY <2>3, <2>4, <2>5
<1>3. ASSUME NEW r \in StateRuns, UpdateStatus(r)
      PROVE  StateInv'
  <2>1. Entries(stateCall[r].entries)
    BY <1>3, CanBecomeEntries DEF UpdateStatus, StateInv
  <2>2. /\ agentState'.entries = stateCall[r].entries /\ agentState'.exists
        /\ DOMAIN agentState' = DOMAIN Object
    BY <1>3 DEF UpdateStatus, Stored, Object
  <2>3. /\ DOMAIN stateCache' = DOMAIN Object \cup {"current"}
        /\ ~stateCache'.current
    BY <1>3 DEF UpdateStatus, StateInv
  <2>4. /\ DOMAIN stateCall' = StateRuns
        /\ \A q \in StateRuns : /\ DOMAIN stateCall'[q] = DOMAIN NoStateCall
                                 /\ ~stateCall'[q].current
    BY <1>3 DEF UpdateStatus, Superseded, NoStateCall, StateInv
  <2> QED
    BY <2>1, <2>2, <2>3, <2>4 DEF StateInv
<1>4. ASSUME NEW r \in StateRuns, UpdateFails(r)
      PROVE  StateInv'
  BY <1>4 DEF UpdateFails, StateInv, NoStateCall
<1>5. CASE StateCacheSync
  BY <1>5 DEF StateCacheSync, StateInv, Object
<1>6. CASE StateTtlPasses
  <2>1. /\ agentState'.entries = Map!Aged(A) /\ agentState'.exists = agentState.exists
        /\ DOMAIN agentState' = DOMAIN Object
    BY <1>6 DEF StateTtlPasses, StateInv, Object
  <2>2. /\ stateCache'.entries = Map!Aged(stateCache.entries)
        /\ stateCache'.current = stateCache.current
        /\ DOMAIN stateCache' = DOMAIN Object \cup {"current"}
    BY <1>6 DEF StateTtlPasses, StateInv, Object
  <2>3. /\ DOMAIN stateCall' = StateRuns
        /\ \A q \in StateRuns : /\ DOMAIN stateCall'[q] = DOMAIN NoStateCall
                                 /\ stateCall'[q].current = stateCall[q].current
                                 /\ stateCall'[q].entries = Map!Aged(stateCall[q].entries)
    BY <1>6 DEF StateTtlPasses, NoStateCall, StateInv
  <2>4. Map!Aged(<<>>) = <<>>
    BY DEF Map!Aged
  <2> QED
    BY <2>1, <2>2, <2>3, <2>4, AgedEntries, CanBecomeAged DEF StateInv
<1>7. CASE UNCHANGED stateVars
  BY <1>7 DEF stateVars, StateInv
<1> QED
  BY <1>1, <1>2, <1>3, <1>4, <1>5, <1>6, <1>7 DEF StateNext

\* The invariant holds in every reachable state.
THEOREM StateInvariant == StateSpec => []StateInv
  BY StateInvInit, StateInvStep, PTL DEF StateSpec

\* A step of the runs is a step of the map or leaves it alone.
LEMMA StateStepIsMapStep ==
    ASSUME StateInv, [StateNext]_stateVars
    PROVE  [Map!MapNext]_(agentState.entries)
<1> DEFINE A == agentState.entries
<1>1. ASSUME NEW r \in StateRuns, ReadCached(r) \/ UpdateFails(r)
      PROVE  A' = A
  BY <1>1 DEF ReadCached, UpdateFails
<1>2. ASSUME NEW r \in StateRuns, CreateState(r)
      PROVE  A' = A
  BY <1>2 DEF CreateState, StateInv, Object
<1>3. ASSUME NEW r \in StateRuns, UpdateStatus(r)
      PROVE  Map!MapNext
  <2>1. CanBecome(A, A')
    BY <1>3 DEF UpdateStatus, Stored, StateInv
  <2> QED
    BY <2>1 DEF CanBecome, Map!MapNext, Map!Remove, Map!Put, Map!Expire
<1>4. CASE StateCacheSync \/ UNCHANGED stateVars
  BY <1>4 DEF StateCacheSync, stateVars
<1>5. CASE StateTtlPasses
  BY <1>5 DEF StateTtlPasses, Map!MapNext, Map!Age, StateInv, Object
<1> QED
  BY <1>1, <1>2, <1>3, <1>4, <1>5 DEF StateNext

\* The runs' operations have the effect of operations on one map, each atomic
\* and within the quotas.
THEOREM StateImplementsMap == StateSpec => StateIsMap
<1>1. StateInit => Map!MapInit
  BY DEF StateInit, Object, Map!MapInit
<1> QED
  BY <1>1, StateInvariant, StateStepIsMapStep, PTL DEF StateSpec, StateIsMap, Map!MapSpec

-----------------------------------------------------------------------------
(* AgentEvents.                                                            *)

\* The initial object and the idle call are values of their types.
LEMMA EventConstantsTyped ==
    /\ NoEvent \in EventObject /\ NoEventCall \in EventCallRec
    /\ NoEvent.consumed \in [Subscribers -> 0 .. ConsumeBound]
    /\ ~NoEventCall.current /\ NoEventCall.op = "idle"
    /\ \A e \in EventObject : CallSound(NoEventCall, e)
<1>1. NoEvent.consumed \in [Subscribers -> 0 .. ConsumeBound]
  BY EventConstants DEF NoEvent
<1>2. NoEvent \in EventObject
  BY <1>1 DEF NoEvent, EventObject, TaskStatuses
<1>3. NoEventCall \in EventCallRec /\ ~NoEventCall.current /\ NoEventCall.op = "idle"
  BY <1>1 DEF NoEventCall, EventCallRec
<1> QED
  BY <1>1, <1>2, <1>3 DEF CallSound

\* The types, one by one.
LEMMA EventTypes ==
    ASSUME EventTypeOK
    PROVE  /\ event \in EventObject
           /\ event.kind \in {"none", "task", "finding", "deleted"}
           /\ event.consumed \in [Subscribers -> 0 .. ConsumeBound]
           /\ eventCache.copy \in EventObject /\ eventCache.current \in BOOLEAN
           /\ eventCache.copy.consumed \in [Subscribers -> 0 .. ConsumeBound]
           /\ eventCall \in [EventRuns -> EventCallRec]
           /\ \A r \in EventRuns :
                /\ eventCall[r] \in EventCallRec
                /\ eventCall[r].consumed \in [Subscribers -> 0 .. ConsumeBound]
                /\ eventCall[r].current \in BOOLEAN
  BY DEF EventTypeOK, EventObject, EventCallRec

\* The initial state satisfies the invariant.
LEMMA EventInvInit == EventInit => EventInv
<1> SUFFICES ASSUME EventInit PROVE EventInv
  OBVIOUS
<1>1. event \in EventObject /\ eventCall \in [EventRuns -> EventCallRec]
  BY EventConstantsTyped DEF EventInit
<1>2. eventCache \in [copy : EventObject, current : BOOLEAN] /\ ~eventCache.current
  BY EventConstantsTyped DEF EventInit
<1>3. \A r \in EventRuns : CallSound(eventCall[r], event) /\ ~eventCall[r].current
  BY <1>1, EventConstantsTyped DEF EventInit
<1> QED
  BY <1>1, <1>2, <1>3 DEF EventInv, EventTypeOK

\* A call that goes on with a sound copy keeps the invariant.
LEMMA EventCallStep ==
    ASSUME EventInv, NEW r \in EventRuns, NEW call \in EventCallRec,
           CallSound(call, event), event.kind = "none" => ~call.current,
           eventCall' = [eventCall EXCEPT ![r] = call], UNCHANGED <<event, eventCache>>
    PROVE  EventInv'
<1>1. eventCall' \in [EventRuns -> EventCallRec] /\ EventTypeOK'
  BY EventTypes DEF EventInv, EventTypeOK
<1>2. \A q \in EventRuns : eventCall'[q] = IF q = r THEN call ELSE eventCall[q]
  BY EventTypes DEF EventInv
<1> QED
  BY <1>1, <1>2 DEF EventInv

\* So does a write, which outdates every other copy.
LEMMA EventStoredStep ==
    ASSUME EventInv, NEW r \in EventRuns, NEW new \in EventObject,
           new.kind # "none", EventStored(r, new)
    PROVE  EventInv'
<1> DEFINE next == IF eventCall[r].op = "setStatus" THEN "working" ELSE "idle"
           after == [NoEventCall EXCEPT !.op = next]
<1>1. next \in {"working", "idle"}
  OBVIOUS
<1> HIDE DEF next
<1>a. after \in EventCallRec /\ ~after.current /\ after.op = next
  BY <1>1, EventConstantsTyped DEF EventCallRec
<1>b. CallSound(after, new)
  BY <1>1, <1>a DEF CallSound
<1>2. ASSUME NEW q \in EventRuns
      PROVE  /\ eventCall'[q] \in EventCallRec /\ ~eventCall'[q].current
             /\ CallSound(eventCall'[q], new)
  <2>1. CASE q # r
    <3>1. eventCall'[q] = [eventCall[q] EXCEPT !.current = FALSE]
      BY <2>1, Zenon DEF EventStored
    <3>2. eventCall[q] \in EventCallRec /\ CallSound(eventCall[q], event)
      BY EventTypes DEF EventInv
    <3>3. /\ eventCall'[q].op = eventCall[q].op /\ eventCall'[q].arg = eventCall[q].arg
          /\ eventCall'[q].consumed = eventCall[q].consumed /\ eventCall'[q].current = FALSE
          /\ eventCall'[q] \in EventCallRec
      BY <3>1, <3>2 DEF EventCallRec
    <3> QED
      BY <3>2, <3>3 DEF CallSound
  <2>2. CASE q = r
    <3>1. eventCall'[q] = after
      BY <2>2, Zenon DEF EventStored, next
    <3> QED
      BY <3>1, <1>a, <1>b, Zenon
  <2> QED
    BY <2>1, <2>2
<1>3. eventCall' \in [EventRuns -> EventCallRec]
  BY <1>2 DEF EventStored
<1>4. /\ event' = new /\ ~eventCache'.current
      /\ eventCache' \in [copy : EventObject, current : BOOLEAN]
  BY DEF EventStored, EventInv, EventTypeOK
<1> QED
  BY <1>2, <1>3, <1>4 DEF EventInv, EventTypeOK

\* Every step preserves the invariant.
LEMMA EventInvStep == EventInv /\ [EventNext]_eventVars => EventInv'
<1> SUFFICES ASSUME EventInv, [EventNext]_eventVars PROVE EventInv'
  OBVIOUS
<1> USE EventConstants
<1>0. /\ EventTypeOK /\ \A q \in EventRuns : CallSound(eventCall[q], event)
      /\ eventCache.current => eventCache.copy = event
      /\ event.kind = "none" =>
           ~eventCache.current /\ \A q \in EventRuns : ~eventCall[q].current
  BY DEF EventInv
<1>c. ASSUME NEW r \in EventRuns, NEW op, NEW arg, NEW copy \in EventObject,
             NEW current \in BOOLEAN, EventCalls(r, op, arg, copy, current),
             [op |-> op, arg |-> arg, consumed |-> copy.consumed, current |-> current]
                 \in EventCallRec,
             CallSound([op |-> op, arg |-> arg, consumed |-> copy.consumed,
                        current |-> current], event),
             event.kind = "none" => ~current, UNCHANGED <<event, eventCache>>
      PROVE  EventInv'
  <2> DEFINE call == [op |-> op, arg |-> arg, consumed |-> copy.consumed, current |-> current]
  <2>1. /\ call \in EventCallRec /\ CallSound(call, event)
        /\ event.kind = "none" => ~call.current
        /\ eventCall' = [eventCall EXCEPT ![r] = call]
    BY <1>c DEF EventCalls
  <2> HIDE DEF call
  <2> QED
    BY <2>1, <1>c, EventCallStep
<1>1. CASE \E r \in EventRuns : DelegateTask(r)
  <2>1. event' \in EventObject /\ event'.kind = "task" /\ UNCHANGED <<eventCache, eventCall>>
        /\ event.kind = "none"
    BY <1>1, EventConstantsTyped DEF DelegateTask, EventObject
  <2>2. \A q \in EventRuns : ~eventCall[q].current
    BY <1>0, <2>1
  <2>3. \A q \in EventRuns : CallSound(eventCall'[q], event')
    BY <1>0, <2>1, <2>2 DEF CallSound
  <2> QED
    BY <1>0, <2>1, <2>3 DEF EventInv, EventTypeOK
<1>2. CASE \E r \in EventRuns : Publish(r)
  <2> PICK r \in EventRuns : Publish(r)
    BY <1>2
  <2> DEFINE call == [op |-> "initStatus", arg |-> "none", consumed |-> event'.consumed,
                      current |-> TRUE]
  <2>1. /\ event' \in EventObject /\ event'.kind = "finding" /\ eventCache' = eventCache
        /\ event.kind = "none" /\ eventCall' = [eventCall EXCEPT ![r] = call]
    BY EventConstantsTyped DEF Publish, EventObject, EventCalls
  <2>2. call \in EventCallRec /\ CallSound(call, event')
    BY <2>1 DEF EventCallRec, EventObject, CallSound
  <2> HIDE DEF call
  <2>3. \A q \in EventRuns : CallSound(eventCall[q], event')
    BY <1>0, <2>1 DEF CallSound
  <2>4. eventCall' \in [EventRuns -> EventCallRec] /\
        \A q \in EventRuns : eventCall'[q] = IF q = r THEN call ELSE eventCall[q]
    BY <1>0, <2>1, <2>2, EventTypes
  <2> QED
    BY <1>0, <2>1, <2>2, <2>3, <2>4 DEF EventInv, EventTypeOK
<1>3. CASE \E r \in EventRuns : PublishStatus(r)
  <2> PICK r \in EventRuns : PublishStatus(r)
    BY <1>3
  <2> DEFINE new == [event EXCEPT !.phase = "New", !.consumed = eventCall[r].consumed]
  <2>1. EventStored(r, new) /\ event.kind # "none"
    BY DEF PublishStatus, Exists
  <2>2. new \in EventObject /\ new.kind # "none"
    BY <1>0, <2>1, EventTypes DEF EventObject
  <2> HIDE DEF new
  <2> QED
    BY <2>1, <2>2, EventStoredStep
<1>4. CASE \E r \in EventRuns, a \in Subscribers : FindNewEvents(r, a)
  <2> PICK r \in EventRuns, a \in Subscribers : FindNewEvents(r, a)
    BY <1>4
  <2> QED
    BY <1>0, <1>c, EventConstantsTyped DEF FindNewEvents, EventCallRec, CallSound
<1>5. CASE \E r \in EventRuns : ConsumeGet(r)
  <2> PICK r \in EventRuns : ConsumeGet(r)
    BY <1>5
  <2>1. eventCall[r].arg \in Subscribers
    BY <1>0 DEF ConsumeGet, CallSound
  <2> QED
    BY <1>0, <1>c, <2>1, EventTypes DEF ConsumeGet, EventCallRec, CallSound
<1>6. CASE \E r \in EventRuns : ConsumeUpdate(r)
  <2> PICK r \in EventRuns : ConsumeUpdate(r)
    BY <1>6
  <2> DEFINE consumed == [eventCall[r].consumed EXCEPT ![eventCall[r].arg] = @ + 1]
             new == [event EXCEPT !.phase = "Consumed", !.consumed = consumed]
  <2>1. EventStored(r, new) /\ event.kind # "none"
    BY DEF ConsumeUpdate, Exists
  <2>2. eventCall[r].arg \in Subscribers /\ eventCall[r].consumed[eventCall[r].arg] < ConsumeBound
    BY <1>0 DEF ConsumeUpdate, CallSound
  <2>3. consumed \in [Subscribers -> 0 .. ConsumeBound]
    BY <1>0, <2>2, EventTypes
  <2>4. new \in EventObject /\ new.kind # "none"
    BY <1>0, <2>1, <2>3, EventTypes DEF EventObject
  <2> HIDE DEF new
  <2> QED
    BY <2>1, <2>4, EventStoredStep
<1>7. CASE \E r \in EventRuns, s \in TaskStatuses \ {"pending", "expired"} : TaskGet(r, s)
  <2> PICK r \in EventRuns, s \in TaskStatuses \ {"pending", "expired"} : TaskGet(r, s)
    BY <1>7
  <2> QED
    BY <1>0, <1>c, EventTypes DEF TaskGet, EventCallRec, CallSound
<1>8. CASE \E r \in EventRuns : CheckTasks(r)
  BY <1>8, <1>0, <1>c, EventConstantsTyped DEF CheckTasks, EventCallRec, CallSound
<1>9. CASE \E r \in EventRuns : TaskUpdate(r)
  <2> PICK r \in EventRuns : TaskUpdate(r)
    BY <1>9
  <2> DEFINE new == [event EXCEPT !.status = eventCall[r].arg]
  <2>1. EventStored(r, new) /\ event.kind # "none" /\ eventCall[r].arg \in TaskStatuses
    BY <1>0 DEF TaskUpdate, Exists, CallSound
  <2>2. new \in EventObject /\ new.kind # "none"
    BY <1>0, <2>1, EventTypes DEF EventObject
  <2> HIDE DEF new
  <2> QED
    BY <2>1, <2>2, EventStoredStep
<1>10. CASE \E r \in EventRuns : ExpireList(r)
  <2> PICK r \in EventRuns : ExpireList(r)
    BY <1>10
  <2> QED
    BY <1>0, <1>c, EventTypes DEF ExpireList, PendingTask, EventCallRec, CallSound
<1>11. CASE \E r \in EventRuns : ExpireUpdateTask(r)
  <2> PICK r \in EventRuns : ExpireUpdateTask(r)
    BY <1>11
  <2> DEFINE new == [event EXCEPT !.status = "expired"]
  <2>1. EventStored(r, new) /\ event.kind # "none"
    BY DEF ExpireUpdateTask, Exists
  <2>2. new \in EventObject /\ new.kind # "none"
    BY <1>0, <2>1, EventTypes DEF EventObject, TaskStatuses
  <2> HIDE DEF new
  <2> QED
    BY <2>1, <2>2, EventStoredStep
<1>12. CASE \E r \in EventRuns : CleanList(r)
  BY <1>12, <1>0, <1>c, EventConstantsTyped DEF CleanList, EventCallRec, CallSound
<1>13. CASE \E r \in EventRuns : CleanDelete(r)
  <2> PICK r \in EventRuns : CleanDelete(r)
    BY <1>13
  <2> DEFINE new == [event EXCEPT !.kind = "deleted"]
  <2>1. EventStored(r, new)
    BY DEF CleanDelete
  <2>2. new \in EventObject /\ new.kind # "none"
    BY <1>0, <2>1, EventTypes DEF EventObject
  <2> HIDE DEF new
  <2> QED
    BY <2>1, <2>2, EventStoredStep
<1>14. CASE \E r \in EventRuns : EventCallFails(r)
  BY <1>14, <1>0, EventCallStep, EventConstantsTyped, EventTypes DEF EventCallFails
<1>15. CASE EventCacheSync
  BY <1>15, <1>0, EventTypes DEF EventCacheSync, EventInv, EventTypeOK
<1>16. CASE EventTtlPasses
  <2>1. /\ event' \in EventObject /\ event'.kind = event.kind /\ event.kind # "none"
        /\ event'.consumed = event.consumed /\ event'.status = event.status
    BY <1>16, <1>0, EventTypes DEF EventTtlPasses, EventObject, Exists
  <2>2. /\ eventCache' \in [copy : EventObject, current : BOOLEAN]
        /\ eventCache'.current = eventCache.current
    <3> DEFINE copy == [eventCache.copy EXCEPT !.old = InCache]
    <3>0. InCache \in BOOLEAN /\ eventCache.copy \in EventObject
      BY <1>0, EventTypes DEF InCache
    <3>1. copy \in EventObject
      BY <3>0 DEF EventObject
    <3>2. eventCache' = [eventCache EXCEPT !.copy = copy]
      BY <1>16 DEF EventTtlPasses
    <3> HIDE DEF copy
    <3> QED
      BY <1>0, <3>1, <3>2 DEF EventTypeOK
  <2>3. eventCache.current => eventCache'.copy = event'
    <3> HAVE eventCache.current
    <3>1. eventCache.copy = event /\ InCache = TRUE
      BY <1>16, <1>0 DEF EventTtlPasses, InCache, Exists
    <3>2. eventCache'.copy = [eventCache.copy EXCEPT !.old = InCache]
      BY <1>16, <1>0 DEF EventTtlPasses, EventTypeOK
    <3> QED
      BY <1>16, <3>1, <3>2 DEF EventTtlPasses
  <2>4. \A q \in EventRuns : CallSound(eventCall[q], event')
    BY <1>0, <2>1 DEF CallSound
  <2> QED
    BY <1>16, <1>0, <2>1, <2>2, <2>3, <2>4 DEF EventTtlPasses, EventInv, EventTypeOK
<1>17. CASE UNCHANGED eventVars
  BY <1>17 DEF eventVars, EventInv, EventTypeOK
<1> QED
  BY <1>1, <1>2, <1>3, <1>4, <1>5, <1>6, <1>7, <1>8, <1>9, <1>10, <1>11, <1>12, <1>13,
     <1>14, <1>15, <1>16, <1>17 DEF EventNext

\* The copies of an AgentEvent are sound in every reachable state: one that
\* is current is the stored object, and a task listed as pending and not
\* written since is pending.
THEOREM EventInvariant == EventSpec => []EventInv
<1>1. EventInit => EventInv
  BY EventInvInit
<1>2. EventInv /\ [EventNext]_eventVars => EventInv'
  BY EventInvStep
<1> QED
  BY <1>1, <1>2, PTL DEF EventSpec

\* A write of a copy that is current takes no consumption back.
LEMMA ConsumedKept ==
    ASSUME EventInv, NEW r \in EventRuns, eventCall[r].current,
           event' = [event EXCEPT !.phase = "New", !.consumed = eventCall[r].consumed]
           \/ /\ eventCall[r].op = "consume"
              /\ event' = [event EXCEPT !.phase = "Consumed",
                             !.consumed = [eventCall[r].consumed EXCEPT
                                              ![eventCall[r].arg] = @ + 1]]
    PROVE  /\ \A a \in Subscribers : event'.consumed[a] >= event.consumed[a]
           /\ event'.status = event.status
<1> USE EventConstants
<1>1. /\ eventCall[r].consumed = event.consumed /\ event \in EventObject
      /\ event.consumed \in [Subscribers -> 0 .. ConsumeBound]
      /\ eventCall[r].op = "consume" => eventCall[r].arg \in Subscribers
  BY EventTypes DEF EventInv, CallSound
<1> DEFINE more == [event.consumed EXCEPT ![eventCall[r].arg] = @ + 1]
<1>2. event'.status = event.status /\ event'.consumed \in {event.consumed, more}
  BY <1>1 DEF EventObject
<1>3. \/ event'.consumed = more /\ eventCall[r].op = "consume"
      \/ event'.consumed = event.consumed
  BY <1>1 DEF EventObject
<1>4. eventCall[r].op = "consume" =>
        \A a \in Subscribers : more[a] >= event.consumed[a]
  BY <1>1
<1>5. \A a \in Subscribers : event.consumed[a] >= event.consumed[a]
  BY <1>1
<1> QED
  BY <1>2, <1>3, <1>4, <1>5

\* No writer undoes another one's record, whatever copies they hold: a
\* recorded consumption stays recorded, and only a pending task expires.
THEOREM WritersDoNotUndo == EventSpec => NoWriterUndone
<1> DEFINE Kept ==
      /\ (Exists /\ Exists') => \A a \in Subscribers : event'.consumed[a] >= event.consumed[a]
      /\ (event'.status = "expired" /\ event.status # "expired") => event.status = "pending"
<1>1. EventInv /\ [EventNext]_eventVars => [Kept]_eventVars
  <2> SUFFICES ASSUME EventInv, EventNext PROVE Kept
    OBVIOUS
  <2>0. /\ event \in EventObject /\ event.consumed \in [Subscribers -> 0 .. ConsumeBound]
        /\ \A r \in EventRuns : CallSound(eventCall[r], event)
    BY EventTypes DEF EventInv
  <2>a. ASSUME event'.consumed = event.consumed,
               event'.status = "expired" => event.status \in {"pending", "expired"}
        PROVE  Kept
    BY <2>0, <2>a, EventConstants
  <2>1. CASE \E r \in EventRuns : DelegateTask(r) \/ Publish(r)
    <3>1. event.kind = "none" /\ event'.status = "pending"
      BY <2>1 DEF DelegateTask, Publish, NoEvent
    <3> QED
      BY <3>1 DEF Exists
  <2>2. CASE \E r \in EventRuns : PublishStatus(r) \/ ConsumeUpdate(r)
    BY <2>2, ConsumedKept DEF PublishStatus, ConsumeUpdate, EventStored
  <2>3. CASE \E r \in EventRuns : TaskUpdate(r)
    <3> PICK r \in EventRuns : TaskUpdate(r)
      BY <2>3
    <3>1. eventCall[r].arg # "expired" /\ event' = [event EXCEPT !.status = eventCall[r].arg]
      BY <2>0 DEF TaskUpdate, CallSound, EventStored
    <3> QED
      BY <2>0, <2>a, <3>1 DEF EventObject
  <2>4. CASE \E r \in EventRuns : ExpireUpdateTask(r)
    <3> PICK r \in EventRuns : ExpireUpdateTask(r)
      BY <2>4
    <3>1. event.status = "pending" /\ event' = [event EXCEPT !.status = "expired"]
      BY <2>0 DEF ExpireUpdateTask, CallSound, EventStored
    <3> QED
      BY <2>0, <2>a, <3>1 DEF EventObject
  <2>5. CASE \E r \in EventRuns : CleanDelete(r)
    <3>1. event' = [event EXCEPT !.kind = "deleted"]
      BY <2>5 DEF CleanDelete, EventStored
    <3>2. event'.consumed = event.consumed /\ event'.status = event.status
      BY <2>0, <3>1 DEF EventObject
    <3> QED
      BY <2>a, <3>2
  <2>6. CASE EventTtlPasses
    <3>1. event'.consumed = event.consumed /\ event'.status = event.status
      BY <2>6, <2>0 DEF EventTtlPasses, EventObject
    <3> QED
      BY <2>a, <3>1
  <2>7. CASE event' = event
    BY <2>7, <2>a
  <2>8. \/ event' = event \/ EventTtlPasses
        \/ \E r \in EventRuns : \/ DelegateTask(r) \/ Publish(r) \/ PublishStatus(r)
                                \/ ConsumeUpdate(r) \/ TaskUpdate(r)
                                \/ ExpireUpdateTask(r) \/ CleanDelete(r)
    BY DEF EventNext, FindNewEvents, ConsumeGet, TaskGet, CheckTasks, ExpireList, CleanList,
           EventCallFails, EventCacheSync
  <2> QED
    BY <2>1, <2>2, <2>3, <2>4, <2>5, <2>6, <2>7, <2>8
<1>2. EventSpec => []EventInv
  BY EventInvariant
<1> QED
  BY <1>1, <1>2, PTL DEF EventSpec, NoWriterUndone

-----------------------------------------------------------------------------
(* Access.                                                                 *)

\* The first of the highest-ranked matching policies exists, and is one of
\* the matching ones. The policies are three, in the order of their ranks.
LEMMA BestPolicy ==
    ASSUME NEW groups, Matched(groups) # {}
    PROVE  LET Rank(i) == roleRank(Policies[i].role)
               best == CHOOSE i \in Matched(groups) :
                           \A j \in Matched(groups) :
                               Rank(j) <= Rank(i) /\ (j < i => Rank(j) < Rank(i))
           IN  best \in Matched(groups) /\ \A j \in Matched(groups) : best <= j
<1> DEFINE Rank(i) == roleRank(Policies[i].role)
           Best(i) == \A j \in Matched(groups) :
                          Rank(j) <= Rank(i) /\ (j < i => Rank(j) < Rank(i))
<1>1. DOMAIN Policies = 1 .. 3
  BY DEF Policies
<1>2. Rank(1) = 3 /\ Rank(2) = 2 /\ Rank(3) = 1
  BY DEF Policies, roleRank
<1>3. Matched(groups) \subseteq {1, 2, 3}
  BY <1>1 DEF Matched
<1> HIDE DEF Rank
<1>4. \E i \in Matched(groups) : Best(i)
  BY <1>2, <1>3
<1>5. \A i \in Matched(groups) : Best(i) => \A j \in Matched(groups) : i <= j
  BY <1>2, <1>3
<1> HIDE DEF Best
<1>6. PICK b : b = CHOOSE i \in Matched(groups) : Best(i)
  OBVIOUS
<1>7. b \in Matched(groups) /\ Best(b)
  BY <1>4, <1>6
<1> QED
  BY <1>5, <1>6, <1>7 DEF Best, Rank

\* Authorize permits an action exactly when some group of the user carries a
\* role that permits it, although one policy alone decides.
LEMMA AuthorizeIsUnion ==
    ASSUME NEW groups, NEW action
    PROVE  Authorize(groups, action) <=>
             \E i \in Matched(groups) : rolePermits(Policies[i].role, action)
<1> DEFINE Rank(i) == roleRank(Policies[i].role)
           best == CHOOSE i \in Matched(groups) :
                       \A j \in Matched(groups) :
                           Rank(j) <= Rank(i) /\ (j < i => Rank(j) < Rank(i))
<1>1. Authorize(groups, action) <=>
        Matched(groups) # {} /\ rolePermits(Policies[best].role, action)
  BY DEF Authorize
<1>2. Matched(groups) # {} =>
        best \in Matched(groups) /\ \A j \in Matched(groups) : best <= j
  BY BestPolicy
<1>3. Matched(groups) \subseteq {1, 2, 3}
  BY DEF Matched, Policies
<1>4. \A i, j \in {1, 2, 3} :
        i <= j /\ rolePermits(Policies[j].role, action) => rolePermits(Policies[i].role, action)
  BY DEF Policies, rolePermits
<1> HIDE DEF best
<1> QED
  BY <1>1, <1>2, <1>3, <1>4

\* A further group never takes a permission away.
LEMMA AuthorizeMonotone ==
    ASSUME NEW few, NEW many, few \subseteq many, NEW action, Authorize(few, action)
    PROVE  Authorize(many, action)
<1>1. Matched(few) \subseteq Matched(many)
  BY DEF Matched
<1> QED
  BY <1>1, AuthorizeIsUnion

\* The types, one by one.
LEMMA AccessTypes ==
    ASSUME AccessTypeOK
    PROVE  /\ api \in [ApiRequests -> ApiRec] /\ \A q \in ApiRequests : api[q] \in ApiRec
           /\ agent \in AgentObjects
           /\ agentCache.object \in AgentObjects /\ agentCache.current \in BOOLEAN
           /\ NoAgent \in AgentObjects
  BY DEF AccessTypeOK, NoAgent, AgentObjects

\* An answer keeps who asked and for what.
LEMMA AnsweredRec ==
    ASSUME NEW req \in ApiRec, NEW status \in ApiStatuses
    PROVE  /\ Answered(req, status) \in ApiRec
           /\ Answered(req, status).pc = "done" /\ Answered(req, status).status = status
           /\ Answered(req, status).groups = req.groups
           /\ Answered(req, status).route = req.route
<1>0. NoAgent \in AgentObjects
  BY DEF NoAgent, AgentObjects
<1> QED
  BY <1>0 DEF Answered, ApiRec

\* A request whose copy is outdated is otherwise the same.
LEMMA OutdatedRec ==
    ASSUME NEW req \in ApiRec, NEW new, new = [req EXCEPT !.current = FALSE]
    PROVE  /\ new \in ApiRec /\ new.pc = req.pc /\ new.status = req.status
           /\ new.groups = req.groups /\ new.route = req.route
           /\ new.read = req.read /\ ~new.current
  BY DEF ApiRec

\* An answer is sound when it says what Authorize said: 403 to who is not
\* permitted, anything else to who is.
LEMMA AnsweredSound ==
    ASSUME NEW req \in ApiRec, NEW stored
    PROVE  /\ req.route # "healthz" /\ ~Authorize(req.groups, Routes[req.route])
                => RequestSound(Answered(req, 403), stored)
           /\ Authorize(req.groups, Routes[req.route]) =>
                \A status \in {200, 202, 400, 404, 500} :
                    RequestSound(Answered(req, status), stored)
<1>1. 403 \in ApiStatuses /\ {200, 202, 400, 404, 500} \subseteq ApiStatuses
  BY DEF ApiStatuses
<1>2. ASSUME req.route # "healthz", ~Authorize(req.groups, Routes[req.route])
      PROVE  RequestSound(Answered(req, 403), stored)
  <2>1. /\ Answered(req, 403).pc = "done" /\ Answered(req, 403).status = 403
        /\ Answered(req, 403).groups = req.groups /\ Answered(req, 403).route = req.route
    BY <1>1, AnsweredRec
  <2> QED
    BY <1>2, <2>1 DEF RequestSound, Passed
<1>3. ASSUME Authorize(req.groups, Routes[req.route]),
             NEW status \in {200, 202, 400, 404, 500}
      PROVE  RequestSound(Answered(req, status), stored)
  <2>1. status \in ApiStatuses /\ status # 403
    BY <1>1, <1>3
  <2> QED
    BY <1>3, <2>1, AnsweredRec DEF RequestSound, Passed
<1> QED
  BY <1>2, <1>3

\* The initial state satisfies the invariant.
LEMMA AccessInvInit == AccessInit => AccessInv
<1> SUFFICES ASSUME AccessInit PROVE AccessInv
  OBVIOUS
<1>0. NoAgent \in AgentObjects
  BY DEF NoAgent, AgentObjects
<1> DEFINE first == [pc |-> "idle", route |-> "healthz", groups |-> {}, read |-> NoAgent,
                     current |-> FALSE, status |-> 0]
<1>1. first \in ApiRec /\ first.pc = "idle" /\ first.status = 0
  <2>1. 0 \in ApiStatuses /\ {} \in UserGroups /\ "healthz" \in ApiRoutes
    BY DEF ApiStatuses, UserGroups, ApiRoutes
  <2> QED
    BY <1>0, <2>1 DEF ApiRec
<1>2. api = [q \in ApiRequests |-> first]
  BY DEF AccessInit
<1> HIDE DEF first
<1>3. RequestSound(first, agent)
  BY <1>1 DEF RequestSound, Passed
<1>4. AccessTypeOK
  BY <1>0, <1>1, <1>2 DEF AccessTypeOK, AccessInit
<1> QED
  BY <1>2, <1>3, <1>4 DEF AccessInv, AccessInit

\* A step of one request, to a sound state of it, keeps the invariant.
LEMMA RequestStep ==
    ASSUME AccessInv, NEW q \in ApiRequests, api' \in [ApiRequests -> ApiRec],
           RequestSound(api'[q], agent), \A p \in ApiRequests \ {q} : api'[p] = api[p],
           UNCHANGED <<agent, agentCache>>
    PROVE  AccessInv'
<1>1. \A p \in ApiRequests : RequestSound(api'[p], agent)
  BY DEF AccessInv
<1> QED
  BY <1>1 DEF AccessInv, AccessTypeOK

\* A write outdates every copy, so that what the requests hold stays sound.
LEMMA WriteStep ==
    ASSUME AccessInv, NEW a \in AgentObjects, WriteAgent(a),
           NEW done \in SUBSET ApiRequests, api' \in [ApiRequests -> ApiRec],
           \A p \in done : RequestSound(api'[p], a),
           \A p \in ApiRequests \ done : api'[p] = [api[p] EXCEPT !.current = FALSE]
    PROVE  AccessInv'
<1>1. ASSUME NEW p \in ApiRequests PROVE RequestSound(api'[p], a)
  <2>1. CASE p \notin done
    <3>1. api[p] \in ApiRec /\ RequestSound(api[p], agent)
      BY AccessTypes DEF AccessInv
    <3>2. /\ api'[p].pc = api[p].pc /\ api'[p].route = api[p].route
          /\ api'[p].groups = api[p].groups /\ api'[p].status = api[p].status
          /\ api'[p].read = api[p].read /\ ~api'[p].current
      BY <2>1, <3>1, OutdatedRec
    <3> QED
      BY <3>1, <3>2 DEF RequestSound, Passed
  <2> QED
    BY <2>1
<1>2. /\ agent' = a /\ ~agentCache'.current
      /\ agentCache' \in [object : AgentObjects, current : BOOLEAN]
  BY DEF WriteAgent, AccessInv, AccessTypeOK
<1> QED
  BY <1>1, <1>2 DEF AccessInv, AccessTypeOK

\* Every step preserves the invariant.
LEMMA AccessInvStep == AccessInv /\ [AccessNext]_accessVars => AccessInv'
<1> SUFFICES ASSUME AccessInv, [AccessNext]_accessVars PROVE AccessInv'
  OBVIOUS
<1>0. /\ AccessTypeOK /\ \A q \in ApiRequests : RequestSound(api[q], agent)
      /\ agentCache.current => agentCache.object = agent
  BY DEF AccessInv
<1>1. ASSUME NEW q \in ApiRequests, NEW r \in ApiRoutes,
             NEW t \in ApiTokens, Middleware(q, r, t)
      PROVE  AccessInv'
  <2> DEFINE pc == IF r = "healthz" \/ ~ValidateToken(t) THEN "done" ELSE "authorize"
             status == IF r = "healthz" THEN 200 ELSE IF ValidateToken(t) THEN 0 ELSE 401
             new == [pc |-> pc, route |-> r, groups |-> t.groups, read |-> NoAgent,
                     current |-> FALSE, status |-> status]
  <2>1. /\ api' = [api EXCEPT ![q] = new] /\ UNCHANGED <<agent, agentCache>>
    BY <1>1 DEF Middleware
  <2>2. \/ r = "healthz" /\ pc = "done" /\ status = 200
        \/ r # "healthz" /\ pc = "done" /\ status = 401
        \/ r # "healthz" /\ pc = "authorize" /\ status = 0
    OBVIOUS
  <2> HIDE DEF pc, status
  <2>3. new \in ApiRec
    <3>1. status \in ApiStatuses /\ pc \in {"done", "authorize"}
      BY <2>2 DEF ApiStatuses
    <3>2. t.groups \in UserGroups /\ NoAgent \in AgentObjects
      BY <1>0, AccessTypes, AccessConstants
    <3> QED
      BY <1>1, <3>1, <3>2 DEF ApiRec
  <2>4. RequestSound(new, agent)
    BY <2>2 DEF RequestSound, Passed
  <2> HIDE DEF new
  <2>5. /\ api' \in [ApiRequests -> ApiRec] /\ api'[q] = new
        /\ \A p \in ApiRequests \ {q} : api'[p] = api[p]
    BY <1>0, <2>1, <2>3, AccessTypes
  <2> QED
    BY <2>1, <2>4, <2>5, RequestStep
<1>2. ASSUME NEW q \in ApiRequests, Handle(q)
      PROVE  AccessInv'
  <2>0. api[q].pc = "authorize" /\ api[q].route # "healthz" /\ UNCHANGED <<agent, agentCache>>
    BY <1>0, <1>2 DEF Handle, RequestSound
  <2>1. CASE ~Authorize(api[q].groups, Routes[api[q].route]) /\ api' = Respond(q, 403)
    <3>1. /\ api' \in [ApiRequests -> ApiRec] /\ RequestSound(api'[q], agent)
          /\ \A p \in ApiRequests \ {q} : api'[p] = api[p]
      <4>1. api[q] \in ApiRec /\ 403 \in ApiStatuses
        BY <1>0, AccessTypes DEF ApiStatuses
      <4>2. Answered(api[q], 403) \in ApiRec /\ RequestSound(Answered(api[q], 403), agent)
        BY <2>0, <2>1, <4>1, AnsweredRec, AnsweredSound
      <4> QED
        BY <1>0, <2>1, <4>2, AccessTypes DEF Respond
    <3> QED
      BY <2>0, <3>1, RequestStep
  <2>2. CASE /\ Authorize(api[q].groups, Routes[api[q].route])
             /\ api' = [api EXCEPT ![q].pc = "handle"]
    <3> DEFINE new == [api[q] EXCEPT !.pc = "handle"]
    <3>1. api' = [api EXCEPT ![q] = new]
      BY <2>2
    <3>2. /\ new \in ApiRec /\ new.pc = "handle" /\ new.status = api[q].status
          /\ new.groups = api[q].groups /\ new.route = api[q].route
      BY <1>0, AccessTypes DEF ApiRec
    <3> HIDE DEF new
    <3>3. RequestSound(new, agent)
      BY <1>0, <2>0, <2>2, <3>2 DEF RequestSound, Passed
    <3>4. /\ api' \in [ApiRequests -> ApiRec] /\ api'[q] = new
          /\ \A p \in ApiRequests \ {q} : api'[p] = api[p]
      BY <1>0, <3>1, <3>2, AccessTypes
    <3> QED
      BY <2>0, <3>3, <3>4, RequestStep
  <2> QED
    BY <1>2, <2>1, <2>2 DEF Handle
<1>a. ASSUME NEW q \in ApiRequests, api[q].pc \in {"handle", "update"}
      PROVE  api[q].route # "healthz" /\ Authorize(api[q].groups, Routes[api[q].route])
  BY <1>0, <1>a DEF RequestSound, Passed
<1>b. ASSUME NEW q \in ApiRequests, api[q].pc \in {"handle", "update"},
             NEW status \in {200, 400, 404, 500}, api' = Respond(q, status),
             UNCHANGED <<agent, agentCache>>
      PROVE  AccessInv'
  <2>1. api[q] \in ApiRec /\ status \in ApiStatuses
    BY <1>0, <1>b, AccessTypes DEF ApiStatuses
  <2>a. Answered(api[q], status) \in ApiRec /\ RequestSound(Answered(api[q], status), agent)
    <3>1. Answered(api[q], status) \in ApiRec
      BY <2>1, AnsweredRec
    <3> QED
      BY <1>a, <1>b, <2>1, <3>1, AnsweredSound
  <2>2. /\ api' \in [ApiRequests -> ApiRec] /\ RequestSound(api'[q], agent)
        /\ \A p \in ApiRequests \ {q} : api'[p] = api[p]
    BY <1>0, <1>b, <2>a, AccessTypes DEF Respond
  <2> QED
    BY <1>b, <2>2, RequestStep
<1>3. ASSUME NEW q \in ApiRequests, Serve(q)
      PROVE  AccessInv'
  <2>1. PICK status \in {200, 400, 404, 500} :
          api' = Respond(q, status) /\ UNCHANGED <<agent, agentCache>> /\ api[q].pc = "handle"
    BY <1>3 DEF Serve
  <2> QED
    BY <1>b, <2>1
<1>4. ASSUME NEW q \in ApiRequests, handleRunAgent(q)
      PROVE  AccessInv'
  <2>0. api[q].pc = "handle" /\ UNCHANGED <<agent, agentCache>>
    BY <1>4 DEF handleRunAgent
  <2>1. CASE \E status \in {400, 404} : api' = Respond(q, status)
    BY <1>b, <2>0, <2>1
  <2> DEFINE read == [agentCache.object EXCEPT !.runNow = TRUE]
             new == [api[q] EXCEPT !.pc = "update", !.current = agentCache.current,
                                   !.read = read]
  <2>2. CASE api' = [api EXCEPT ![q] = new]
    <3>1. read \in AgentObjects /\ read.runNow /\ read.paused = agentCache.object.paused
      BY <1>0, AccessTypes DEF AgentObjects
    <3> HIDE DEF read
    <3>2. /\ new \in ApiRec /\ new.pc = "update" /\ new.status = api[q].status
          /\ new.groups = api[q].groups /\ new.route = api[q].route
          /\ new.read = read /\ new.current = agentCache.current
      BY <1>0, <3>1, AccessTypes DEF ApiRec
    <3> HIDE DEF new
    <3>3. RequestSound(new, agent)
      BY <1>0, <1>a, <2>0, <3>1, <3>2 DEF RequestSound, Passed
    <3>4. /\ api' \in [ApiRequests -> ApiRec] /\ api'[q] = new
          /\ \A p \in ApiRequests \ {q} : api'[p] = api[p]
      BY <1>0, <2>2, <3>2, AccessTypes
    <3> QED
      BY <2>0, <3>3, <3>4, RequestStep
  <2> QED
    BY <1>4, <2>1, <2>2 DEF handleRunAgent
<1>5. ASSUME NEW q \in ApiRequests, UpdateAgent(q)
      PROVE  AccessInv'
  <2>1. CASE api' = Respond(q, 500) /\ UNCHANGED <<agent, agentCache>>
    BY <1>5, <1>b, <2>1 DEF UpdateAgent
  <2>2. CASE /\ api[q].current /\ WriteAgent(api[q].read)
             /\ api' = [p \in ApiRequests |->
                          IF p = q THEN Answered(api[q], 202)
                          ELSE [api[p] EXCEPT !.current = FALSE]]
    <3>1. api[q].read \in AgentObjects
      BY <1>0, AccessTypes DEF ApiRec
    <3>2. /\ Answered(api[q], 202) \in ApiRec
          /\ RequestSound(Answered(api[q], 202), api[q].read)
      <4>1. api[q] \in ApiRec /\ 202 \in ApiStatuses
        BY <1>0, AccessTypes DEF ApiStatuses
      <4>2. Authorize(api[q].groups, Routes[api[q].route])
        BY <1>a, <1>5 DEF UpdateAgent
      <4> QED
        BY <4>1, <4>2, AnsweredRec, AnsweredSound
    <3>3. \A p \in ApiRequests : [api[p] EXCEPT !.current = FALSE] \in ApiRec
      BY <1>0, AccessTypes, OutdatedRec
    <3>4. api' \in [ApiRequests -> ApiRec]
      BY <2>2, <3>2, <3>3
    <3> QED
      <4>1. WriteAgent(api[q].read) /\ {q} \in SUBSET ApiRequests
        BY <2>2
      <4>2. \A p \in {q} : RequestSound(api'[p], api[q].read)
        BY <2>2, <3>2
      <4>3. \A p \in ApiRequests \ {q} : api'[p] = [api[p] EXCEPT !.current = FALSE]
        BY <2>2, Zenon
      <4> QED
        BY <3>1, <3>4, <4>1, <4>2, <4>3, WriteStep, Zenon
  <2> QED
    BY <1>5, <2>1, <2>2 DEF UpdateAgent
<1>6. CASE AgentEdited
  <2>1. PICK a \in AgentObjects : WriteAgent(a)
    BY <1>6, <1>0, AccessTypes DEF AgentEdited, AgentObjects
  <2>2. \A p \in ApiRequests : api'[p] = [api[p] EXCEPT !.current = FALSE]
    BY <1>6 DEF AgentEdited
  <2>3. \A p \in ApiRequests : [api[p] EXCEPT !.current = FALSE] \in ApiRec
    BY <1>0, AccessTypes, OutdatedRec
  <2>4. api' \in [ApiRequests -> ApiRec]
    BY <1>6, <2>3 DEF AgentEdited
  <2> QED
    <3>1. {} \in SUBSET ApiRequests /\ \A p \in {} : RequestSound(api'[p], a)
      OBVIOUS
    <3>2. \A p \in ApiRequests \ {} : api'[p] = [api[p] EXCEPT !.current = FALSE]
      BY <2>2, Zenon
    <3> QED
      BY <2>1, <2>4, <3>1, <3>2, WriteStep, Zenon
<1>7. CASE AgentCacheSync
  BY <1>7, <1>0, AccessTypes DEF AgentCacheSync, AccessInv, AccessTypeOK
<1>8. CASE UNCHANGED accessVars
  BY <1>8 DEF accessVars, AccessInv, AccessTypeOK
<1> QED
  BY <1>1, <1>2, <1>3, <1>4, <1>5, <1>6, <1>7, <1>8 DEF AccessNext

\* Requests and copies of the agent are sound in every reachable state.
THEOREM AccessInvariant == AccessSpec => []AccessInv
<1>1. AccessInit => AccessInv
  BY AccessInvInit
<1>2. AccessInv /\ [AccessNext]_accessVars => AccessInv'
  BY AccessInvStep
<1> QED
  BY <1>1, <1>2, PTL DEF AccessSpec

\* A user in more groups may do more, for any tokens and any number of
\* requests: nobody is forbidden what one with fewer groups was allowed.
THEOREM GroupsOnlyAdd == AccessSpec => []MoreGroupsMorePermissions
<1>1. AccessInv => MoreGroupsMorePermissions
  <2> SUFFICES ASSUME AccessInv PROVE MoreGroupsMorePermissions
    OBVIOUS
  <2>0. \A q \in ApiRequests : RequestSound(api[q], agent)
    BY DEF AccessInv
  <2>1. ASSUME NEW q \in ApiRequests, NEW p \in ApiRequests,
               api[q].route = api[p].route, api[q].groups \subseteq api[p].groups,
               Passed(api[q]), api[p].status = 403
        PROVE  FALSE
    <3>1. api[p].route # "healthz" /\ ~Authorize(api[p].groups, Routes[api[p].route])
      BY <2>0, <2>1 DEF RequestSound
    <3>2. Authorize(api[q].groups, Routes[api[p].route])
      BY <2>0, <2>1, <3>1 DEF RequestSound
    <3> QED
      BY <2>1, <3>1, <3>2, AuthorizeMonotone
  <2>2. ASSUME NEW q \in ApiRequests, api[q].pc \in {"handle", "update"}
        PROVE  \E i \in DOMAIN Policies :
                 /\ Policies[i].group \in api[q].groups
                 /\ rolePermits(Policies[i].role, Routes[api[q].route])
    <3>1. Authorize(api[q].groups, Routes[api[q].route])
      BY <2>0, <2>2 DEF RequestSound, Passed
    <3>2. PICK i \in Matched(api[q].groups) :
            rolePermits(Policies[i].role, Routes[api[q].route])
      BY <3>1, AuthorizeIsUnion
    <3>3. i \in DOMAIN Policies /\ Policies[i].group \in api[q].groups
      BY DEF Matched
    <3> QED
      BY <3>2, <3>3
  <2>3. \A q, p \in ApiRequests :
          /\ api[q].route = api[p].route /\ api[q].groups \subseteq api[p].groups
          /\ Passed(api[q])
          => api[p].status # 403
    BY <2>1
  <2>4. \A q \in ApiRequests :
          api[q].pc \in {"handle", "update"} =>
            \E i \in DOMAIN Policies : /\ Policies[i].group \in api[q].groups
                                       /\ rolePermits(Policies[i].role, Routes[api[q].route])
    BY <2>2
  <2> QED
    BY <2>3, <2>4 DEF MoreGroupsMorePermissions
<1>2. AccessSpec => []AccessInv
  BY AccessInvariant
<1> QED
  BY <1>1, <1>2, PTL

\* Only the update answers 202, and it writes what it read.
LEMMA OnlyUpdateAccepts ==
    ASSUME AccessInv, AccessNext, NEW q \in ApiRequests,
           api[q].status = 0, api'[q].status = 202
    PROVE  api[q].pc = "update" /\ api[q].current /\ agent' = api[q].read
<1>0. /\ AccessTypeOK /\ \A p \in ApiRequests : api[p] \in ApiRec
      /\ api \in [ApiRequests -> ApiRec]
  BY AccessTypes DEF AccessInv
<1>a. ASSUME NEW p \in ApiRequests, NEW status \in ApiStatuses, status # 202,
             api' = Respond(p, status)
      PROVE  FALSE
  <2>1. api'[q] = IF q = p THEN Answered(api[p], status) ELSE api[q]
    BY <1>0, <1>a DEF Respond
  <2>2. Answered(api[p], status).status = status
    BY <1>0, <1>a, AnsweredRec
  <2> QED
    BY <1>a, <2>1, <2>2
<1>s. {200, 400, 403, 404, 500} \subseteq ApiStatuses
  BY DEF ApiStatuses
<1>1. ASSUME NEW p \in ApiRequests, NEW r \in ApiRoutes, NEW t \in ApiTokens,
             Middleware(p, r, t)
      PROVE  FALSE
  <2> DEFINE status == IF r = "healthz" THEN 200 ELSE IF ValidateToken(t) THEN 0 ELSE 401
  <2>1. PICK new : api' = [api EXCEPT ![p] = new] /\ new.status = status
    BY <1>1 DEF Middleware
  <2>2. status # 202
    OBVIOUS
  <2> HIDE DEF status
  <2>3. api'[q] = IF q = p THEN new ELSE api[q]
    BY <1>0, <2>1
  <2> QED
    BY <2>1, <2>2, <2>3
<1>2. ASSUME NEW p \in ApiRequests, Handle(p)
      PROVE  FALSE
  <2>1. CASE api' = Respond(p, 403)
    BY <1>a, <1>s, <2>1
  <2>2. CASE api' = [api EXCEPT ![p].pc = "handle"]
    <3>1. api'[q].status = api[q].status
      BY <1>0, <2>2 DEF ApiRec
    <3> QED
      BY <3>1
  <2> QED
    BY <1>2, <2>1, <2>2 DEF Handle
<1>3. ASSUME NEW p \in ApiRequests, Serve(p)
      PROVE  FALSE
  <2>1. PICK status \in {200, 400, 404, 500} : api' = Respond(p, status)
    BY <1>3 DEF Serve
  <2>2. status \in ApiStatuses /\ status # 202
    BY <1>s, <2>1
  <2> QED
    BY <1>a, <2>1, <2>2
<1>4. ASSUME NEW p \in ApiRequests, handleRunAgent(p)
      PROVE  FALSE
  <2>1. CASE api' = Respond(p, 400) \/ api' = Respond(p, 404)
    BY <1>a, <1>s, <2>1
  <2> DEFINE read == [agentCache.object EXCEPT !.runNow = TRUE]
  <2>2. CASE api' = [api EXCEPT ![p] = [@ EXCEPT !.pc = "update", !.current = agentCache.current,
                                                 !.read = read]]
    <3> HIDE DEF read
    <3>1. api'[q].status = api[q].status
      BY <1>0, <2>2 DEF ApiRec
    <3> QED
      BY <3>1
  <2> QED
    BY <1>4, <2>1, <2>2 DEF handleRunAgent
<1>5. ASSUME NEW p \in ApiRequests, UpdateAgent(p)
      PROVE  api[q].pc = "update" /\ api[q].current /\ agent' = api[q].read
  <2>1. CASE api' = Respond(p, 500)
    BY <1>a, <1>s, <2>1
  <2>2. CASE /\ api[p].current /\ WriteAgent(api[p].read)
             /\ api' = [x \in ApiRequests |->
                          IF x = p THEN Answered(api[p], 202)
                          ELSE [api[x] EXCEPT !.current = FALSE]]
    <3>1. CASE q = p
      BY <1>5, <2>2, <3>1 DEF UpdateAgent, WriteAgent
    <3>2. CASE q # p
      <4>1. api'[q] = [api[q] EXCEPT !.current = FALSE]
        BY <2>2, <3>2, Zenon
      <4>2. api'[q].status = api[q].status
        BY <1>0, <4>1, OutdatedRec
      <4> QED
        BY <4>2
    <3> QED
      BY <3>1, <3>2
  <2> QED
    BY <1>5, <2>1, <2>2 DEF UpdateAgent
<1>6. CASE AgentEdited
  <2>1. api'[q] = [api[q] EXCEPT !.current = FALSE]
    BY <1>6 DEF AgentEdited
  <2>2. api'[q].status = api[q].status
    BY <1>0, <2>1, OutdatedRec
  <2> QED
    BY <2>2
<1>7. CASE AgentCacheSync
  BY <1>7 DEF AgentCacheSync
<1> QED
  BY <1>1, <1>2, <1>3, <1>4, <1>5, <1>6, <1>7 DEF AccessNext

\* Triggering a run through the API undoes nobody's change of the agent,
\* however stale the copy the handler read.
THEOREM TriggersKeepTheSpec == AccessSpec => TriggerKeepsSpec
<1> DEFINE Kept == (\E q \in ApiRequests : api[q].status = 0 /\ api'[q].status = 202)
                     => agent'.paused = agent.paused /\ agent'.runNow
<1>1. AccessInv /\ [AccessNext]_accessVars => [Kept]_accessVars
  <2> SUFFICES ASSUME AccessInv, AccessNext, NEW q \in ApiRequests,
                      api[q].status = 0, api'[q].status = 202
               PROVE  agent'.paused = agent.paused /\ agent'.runNow
    OBVIOUS
  <2>1. api[q].pc = "update" /\ api[q].current /\ agent' = api[q].read
    BY OnlyUpdateAccepts
  <2>2. RequestSound(api[q], agent)
    BY DEF AccessInv
  <2> QED
    BY <2>1, <2>2 DEF RequestSound
<1>2. AccessSpec => []AccessInv
  BY AccessInvariant
<1> QED
  BY <1>1, <1>2, PTL DEF AccessSpec, TriggerKeepsSpec

-----------------------------------------------------------------------------
(* Retention.                                                              *)

\* More runs are at least as many.
LEMMA MoreRuns ==
    ASSUME NEW S, NEW T, S \subseteq T, T \subseteq StoredRuns
    PROVE  /\ Cardinality(S) \in Nat /\ Cardinality(T) \in Nat
           /\ Cardinality(S) <= Cardinality(T)
<1>1. IsFiniteSet(StoredRuns)
  BY RetentionConstants, FS_Interval DEF StoredRuns
<1>2. IsFiniteSet(T)
  BY <1>1, FS_Subset
<1> QED
  BY <1>2, FS_Subset, FS_CardinalityType

\* A set of runs that is not empty has a newest one.
LEMMA NewestRun ==
    ASSUME NEW S, S \subseteq StoredRuns, S # {}
    PROVE  \E m \in S : \A q \in S : q <= m
<1> USE RetentionConstants
<1> DEFINE T == {n \in Nat : \E q \in S : n = MaxRuns - q}
<1>1. T # {} /\ T \subseteq Nat
  <2>1. PICK q \in S : q \in 1 .. MaxRuns
    BY DEF StoredRuns
  <2>2. MaxRuns - q \in Nat
    BY <2>1
  <2> QED
    BY <2>2
<1>2. PICK n \in T : \A k \in T : ~(<<k, n>> \in OpToRel(<, Nat))
  BY <1>1, NatLessThanWellFounded, WFMin
<1>3. PICK m \in S : n = MaxRuns - m
  BY <1>2
<1>4. ASSUME NEW q \in S PROVE q <= m
  <2>1. MaxRuns - q \in T /\ MaxRuns - q \in Nat /\ m \in Nat /\ q \in Nat /\ n \in Nat
    BY DEF StoredRuns
  <2>2. ~(MaxRuns - q < n)
    BY <1>2, <2>1 DEF OpToRel
  <2> QED
    BY <1>3, <2>1, <2>2
<1> QED
  BY <1>4

\* The types, one by one, and the followers that every argument counts.
LEMMA RetentionTypes ==
    ASSUME RetentionTypeOK
    PROVE  /\ runObjects \in [StoredRuns -> RunRec] /\ runCache \in [StoredRuns -> RunPhases]
           /\ toDelete \subseteq StoredRuns
           /\ \A r \in StoredRuns : /\ runObjects[r] \in RunRec /\ runCache[r] \in RunPhases
                                    /\ r \in Nat
  BY RetentionConstants DEF RetentionTypeOK, StoredRuns

\* The initial state satisfies the invariant.
LEMMA RetentionInvInit == RetentionInit => RetentionInv
<1> SUFFICES ASSUME RetentionInit PROVE RetentionInv
  OBVIOUS
<1>1. (CHOOSE a \in RunAgents : TRUE) \in RunAgents
  BY RetentionConstants
<1>2. runObjects \in [StoredRuns -> RunRec] /\ \A r \in StoredRuns : runObjects[r].phase = "none"
  BY <1>1 DEF RetentionInit, RunRec, RunPhases
<1>3. runCache \in [StoredRuns -> RunPhases] /\ \A r \in StoredRuns : runCache[r] = "none"
  BY DEF RetentionInit, RunPhases
<1> QED
  BY <1>2, <1>3 DEF RetentionInv, RetentionTypeOK, RetentionInit

\* Enough followers stay enough when the set of them grows.
LEMMA StillEnough ==
    ASSUME NEW objects, NEW r, NEW picked,
           NEW objects2, NEW r2, NEW picked2,
           Followers(objects, r, picked) \subseteq Followers(objects2, r2, picked2),
           Cardinality(Followers(objects, r, picked)) >= PreserveMinPerAgent
    PROVE  Cardinality(Followers(objects2, r2, picked2)) >= PreserveMinPerAgent
<1>1. Followers(objects2, r2, picked2) \subseteq StoredRuns
  BY DEF Followers
<1> QED
  BY <1>1, MoreRuns, RetentionConstants

\* A step that changes one run, which is not among the picked or deleted
\* ones unless it stays as it is for the others, keeps the invariant.
LEMMA RunChanges ==
    ASSUME RetentionInv, NEW r \in StoredRuns, NEW run \in RunRec,
           runObjects' = [runObjects EXCEPT ![r] = run], UNCHANGED <<runCache, toDelete>>,
           \/ runObjects[r].phase = "none" /\ run.phase = "Running"
           \/ /\ runObjects[r].phase \in {"Running", "finished"}
              /\ run.phase \in {runObjects[r].phase, "finished"}
              /\ run.agent = runObjects[r].agent
              /\ runObjects[r].old => run.old
    PROVE  RetentionInv'
<1>0. RetentionTypeOK
  BY DEF RetentionInv
<1>1. runObjects' \in [StoredRuns -> RunRec] /\ RetentionTypeOK'
  BY <1>0 DEF RetentionTypeOK
<1>2. \A q \in StoredRuns : runObjects'[q] = IF q = r THEN run ELSE runObjects[q]
  BY <1>0, RetentionTypes
<1>3. ASSUME NEW q \in StoredRuns, q \in toDelete \/ runObjects'[q].phase = "deleted"
      PROVE  Cardinality(Followers(runObjects', q, toDelete)) >= PreserveMinPerAgent
  <2>1. q \in toDelete \/ runObjects[q].phase = "deleted"
    BY <1>2, <1>3
  <2>2. runObjects'[q].agent = runObjects[q].agent
    BY <1>2, <2>1 DEF RetentionInv
  <2>3. Followers(runObjects, q, toDelete) \subseteq Followers(runObjects', q, toDelete)
    BY <1>2, <2>2 DEF Followers
  <2>4. Cardinality(Followers(runObjects, q, toDelete)) >= PreserveMinPerAgent
    BY <2>1 DEF RetentionInv
  <2> QED
    BY <2>3, <2>4, StillEnough
<1>4. ASSUME NEW q \in StoredRuns
      PROVE  /\ runCache[q] # "none" => runObjects'[q].phase # "none"
             /\ runCache[q] = "finished" => runObjects'[q].phase \in {"finished", "deleted"}
             /\ q \in toDelete => /\ runObjects'[q].phase \in {"finished", "deleted"}
                                  /\ runObjects'[q].old
  <2>1. /\ runCache[q] # "none" => runObjects[q].phase # "none"
        /\ runCache[q] = "finished" => runObjects[q].phase \in {"finished", "deleted"}
        /\ q \in toDelete => /\ runObjects[q].phase \in {"finished", "deleted"}
                             /\ runObjects[q].old
    BY DEF RetentionInv
  <2> QED
    BY <1>2, <2>1
<1> QED
  BY <1>1, <1>3, <1>4 DEF RetentionInv

\* Whatever a scan picks, it leaves enough runs: those that follow the newest
\* run picked. A listed run that is gone already has its own followers.
LEMMA ScanLeavesEnough ==
    ASSUME RetentionInv, toDelete = {}, NEW S \in Batches, NEW r \in StoredRuns,
           NEW s \in S, s >= r, runObjects[s].agent = runObjects[r].agent
    PROVE  Cardinality(Followers(runObjects, r, S)) >= PreserveMinPerAgent
<1> DEFINE mine == {q \in S : runObjects[q].agent = runObjects[r].agent}
<1>0. S \subseteq Eligible /\ Eligible \subseteq StoredRuns /\ Listed \subseteq StoredRuns
  BY DEF Batches, Eligible, Listed
<1>1. PICK m \in mine : \A q \in mine : q <= m
  BY <1>0, NewestRun
<1>2. /\ m \in StoredRuns /\ m \in Eligible /\ m >= r
      /\ runObjects[m].agent = runObjects[r].agent
      /\ \A q \in StoredRuns : q \in Nat
  BY <1>0, <1>1, RetentionConstants DEF StoredRuns
<1> DEFINE newer == {q \in Listed : q > m /\ runObjects[q].agent = runObjects[m].agent}
<1>3. Cardinality(newer) >= PreserveMinPerAgent
  BY <1>2 DEF Eligible, Index
<1>4. \A q \in StoredRuns : q > m /\ runObjects[q].agent = runObjects[r].agent => q \notin S /\ q > r
  BY <1>1, <1>2
<1>5. CASE \E q \in newer : runObjects[q].phase = "deleted"
  <2> PICK q \in newer : runObjects[q].phase = "deleted"
    BY <1>5
  <2>1. q \in StoredRuns /\ q > m /\ runObjects[q].agent = runObjects[r].agent
    BY <1>0, <1>2
  <2>2. Cardinality(Followers(runObjects, q, toDelete)) >= PreserveMinPerAgent
    BY <2>1 DEF RetentionInv
  <2>3. Followers(runObjects, q, toDelete) \subseteq Followers(runObjects, r, S)
    BY <1>2, <1>4, <2>1 DEF Followers
  <2> QED
    BY <2>2, <2>3, StillEnough
<1>6. CASE \A q \in newer : runObjects[q].phase # "deleted"
  <2>1. \A q \in newer : runObjects[q].phase \in {"Running", "finished"}
    <3> TAKE q \in newer
    <3>1. q \in StoredRuns /\ runCache[q] # "none"
      BY <1>0 DEF Listed
    <3>2. runObjects[q].phase # "none" /\ runObjects[q].phase # "deleted"
      BY <1>6, <3>1 DEF RetentionInv
    <3>3. runObjects[q].phase \in RunPhases
      BY <3>1, RetentionTypes DEF RetentionInv, RunRec
    <3> QED
      BY <3>2, <3>3 DEF RunPhases
  <2>2. newer \subseteq Followers(runObjects, r, S)
    BY <1>0, <1>2, <1>4, <2>1 DEF Followers
  <2>3. Followers(runObjects, r, S) \subseteq StoredRuns
    BY DEF Followers
  <2> QED
    BY <1>3, <2>2, <2>3, MoreRuns, RetentionConstants
<1> QED
  BY <1>5, <1>6

\* Every step preserves the invariant.
LEMMA RetentionInvStep == RetentionInv /\ [RetentionNext]_retentionVars => RetentionInv'
<1> SUFFICES ASSUME RetentionInv, [RetentionNext]_retentionVars PROVE RetentionInv'
  OBVIOUS
<1>0. /\ RetentionTypeOK
      /\ runObjects \in [StoredRuns -> RunRec] /\ runCache \in [StoredRuns -> RunPhases]
      /\ \A r \in StoredRuns : runObjects[r] \in RunRec /\ runCache[r] \in RunPhases
      /\ toDelete \subseteq StoredRuns
  BY RetentionTypes DEF RetentionInv
<1>a. ASSUME NEW q \in StoredRuns
      PROVE  /\ runCache[q] # "none" => runObjects[q].phase # "none"
             /\ runCache[q] = "finished" => runObjects[q].phase \in {"finished", "deleted"}
             /\ q \in toDelete => /\ runObjects[q].phase \in {"finished", "deleted"}
                                  /\ runObjects[q].old
             /\ q \in toDelete \/ runObjects[q].phase = "deleted" =>
                  Cardinality(Followers(runObjects, q, toDelete)) >= PreserveMinPerAgent
  BY DEF RetentionInv
<1>1. ASSUME NEW r \in StoredRuns, NEW a \in RunAgents, CreateRun(r, a)
      PROVE  RetentionInv'
  <2> DEFINE run == [runObjects[r] EXCEPT !.phase = "Running", !.agent = a]
  <2>1. run \in RunRec /\ run.phase = "Running"
    BY <1>0 DEF RunRec, RunPhases
  <2>2. runObjects' = [runObjects EXCEPT ![r] = run]
    BY <1>0, <1>1 DEF CreateRun, RunRec
  <2> HIDE DEF run
  <2> QED
    BY <1>1, <2>1, <2>2, RunChanges DEF CreateRun
<1>2. ASSUME NEW r \in StoredRuns, FinishRun(r)
      PROVE  RetentionInv'
  <2> DEFINE run == [runObjects[r] EXCEPT !.phase = "finished"]
  <2>1. run \in RunRec /\ run.phase = "finished" /\ run.agent = runObjects[r].agent
        /\ run.old = runObjects[r].old
    BY <1>0 DEF RunRec, RunPhases
  <2>2. runObjects' = [runObjects EXCEPT ![r] = run]
    BY <1>2 DEF FinishRun
  <2> HIDE DEF run
  <2> QED
    BY <1>2, <2>1, <2>2, RunChanges DEF FinishRun
<1>3. ASSUME NEW r \in StoredRuns, RunnerDies(r)
      PROVE  RetentionInv'
  <2> DEFINE run == [runObjects[r] EXCEPT !.dead = TRUE]
  <2>1. run \in RunRec /\ run.phase = runObjects[r].phase /\ run.agent = runObjects[r].agent
        /\ run.old = runObjects[r].old
    BY <1>0 DEF RunRec
  <2>2. runObjects' = [runObjects EXCEPT ![r] = run]
    BY <1>3 DEF RunnerDies
  <2> HIDE DEF run
  <2> QED
    BY <1>3, <2>1, <2>2, RunChanges DEF RunnerDies
<1>4. ASSUME NEW r \in StoredRuns, TtlPasses(r)
      PROVE  RetentionInv'
  <2> DEFINE run == [runObjects[r] EXCEPT !.old = TRUE]
  <2>1. run \in RunRec /\ run.phase = runObjects[r].phase /\ run.agent = runObjects[r].agent
        /\ run.old
    BY <1>0 DEF RunRec
  <2>2. runObjects' = [runObjects EXCEPT ![r] = run]
    BY <1>4 DEF TtlPasses
  <2> HIDE DEF run
  <2> QED
    BY <1>4, <2>1, <2>2, RunChanges DEF TtlPasses
<1>5. ASSUME NEW r \in StoredRuns, RunCacheSync(r)
      PROVE  RetentionInv'
  <2>1. runObjects[r].phase \in RunPhases
    BY <1>0 DEF RunRec
  <2>2. /\ runCache' \in [StoredRuns -> RunPhases]
        /\ \A q \in StoredRuns :
             runCache'[q] = IF q = r THEN runObjects[r].phase ELSE runCache[q]
    BY <1>0, <1>5, <2>1 DEF RunCacheSync
  <2> QED
    BY <1>0, <1>5, <1>a, <2>2 DEF RunCacheSync, RetentionInv, RetentionTypeOK
<1>6. CASE Scan
  <2>0. toDelete = {} /\ toDelete' \in Batches /\ UNCHANGED <<runObjects, runCache>>
    BY <1>6 DEF Scan
  <2>1. toDelete' \subseteq Eligible
    BY <2>0 DEF Batches
  <2>2. ASSUME NEW q \in toDelete'
        PROVE  /\ q \in StoredRuns /\ runObjects[q].phase \in {"finished", "deleted"}
               /\ runObjects[q].old
    BY <1>a, <2>1 DEF Eligible, Listed, IsTerminal
  <2>3. ASSUME NEW q \in StoredRuns, q \in toDelete' \/ runObjects[q].phase = "deleted"
        PROVE  Cardinality(Followers(runObjects, q, toDelete')) >= PreserveMinPerAgent
    <3>1. CASE \E s \in toDelete' : s >= q /\ runObjects[s].agent = runObjects[q].agent
      BY <2>0, <3>1, ScanLeavesEnough
    <3>2. CASE ~\E s \in toDelete' : s >= q /\ runObjects[s].agent = runObjects[q].agent
      <4>1. q \in Nat /\ \A s \in StoredRuns : s \in Nat
        BY <1>0, RetentionTypes
      <4>2. runObjects[q].phase = "deleted"
        BY <2>3, <3>2, <4>1
      <4>3. Followers(runObjects, q, toDelete) \subseteq Followers(runObjects, q, toDelete')
        <5> SUFFICES ASSUME NEW x \in Followers(runObjects, q, toDelete)
                     PROVE  x \in Followers(runObjects, q, toDelete')
          OBVIOUS
        <5>1. /\ x \in StoredRuns /\ x > q /\ runObjects[x].agent = runObjects[q].agent
              /\ runObjects[x].phase \in {"Running", "finished"}
          BY DEF Followers
        <5>2. x \notin toDelete'
          BY <3>2, <4>1, <5>1
        <5> QED
          BY <5>1, <5>2 DEF Followers
      <4> QED
        BY <1>a, <4>2, <4>3, StillEnough
    <3> QED
      BY <3>1, <3>2
  <2> QED
    BY <1>0, <1>a, <2>0, <2>2, <2>3 DEF RetentionInv, RetentionTypeOK
<1>7. ASSUME NEW r \in toDelete, toDelete' = toDelete \ {r}, UNCHANGED runCache,
             runObjects' = [runObjects EXCEPT ![r].phase = "deleted"]
      PROVE  RetentionInv'
  <2> DEFINE run == [runObjects[r] EXCEPT !.phase = "deleted"]
  <2>1. /\ r \in StoredRuns /\ run \in RunRec /\ run.phase = "deleted"
        /\ run.agent = runObjects[r].agent /\ run.old = runObjects[r].old
    BY <1>0, <1>7 DEF RunRec, RunPhases
  <2>2. runObjects' = [runObjects EXCEPT ![r] = run]
    BY <1>7
  <2> HIDE DEF run
  <2>3. /\ runObjects' \in [StoredRuns -> RunRec]
        /\ \A q \in StoredRuns : runObjects'[q] = IF q = r THEN run ELSE runObjects[q]
    BY <1>0, <2>1, <2>2
  <2>4. ASSUME NEW q \in StoredRuns, q \in toDelete' \/ runObjects'[q].phase = "deleted"
        PROVE  Cardinality(Followers(runObjects', q, toDelete')) >= PreserveMinPerAgent
    <3>1. q \in toDelete \/ runObjects[q].phase = "deleted"
      BY <1>7, <2>3, <2>4
    <3>2. Followers(runObjects, q, toDelete) \subseteq Followers(runObjects', q, toDelete')
      BY <1>7, <2>1, <2>3 DEF Followers
    <3> QED
      BY <1>a, <3>1, <3>2, StillEnough
  <2>5. ASSUME NEW q \in StoredRuns
        PROVE  /\ runCache[q] # "none" => runObjects'[q].phase # "none"
               /\ runCache[q] = "finished" => runObjects'[q].phase \in {"finished", "deleted"}
               /\ q \in toDelete' => /\ runObjects'[q].phase \in {"finished", "deleted"}
                                     /\ runObjects'[q].old
    BY <1>7, <1>a, <2>1, <2>3
  <2> QED
    BY <1>0, <1>7, <2>3, <2>4, <2>5 DEF RetentionInv, RetentionTypeOK
<1>8. ASSUME toDelete' \subseteq toDelete, UNCHANGED <<runObjects, runCache>>
      PROVE  RetentionInv'
  <2>1. ASSUME NEW q \in StoredRuns, q \in toDelete' \/ runObjects[q].phase = "deleted"
        PROVE  Cardinality(Followers(runObjects, q, toDelete')) >= PreserveMinPerAgent
    <3>1. Followers(runObjects, q, toDelete) \subseteq Followers(runObjects, q, toDelete')
      BY <1>8 DEF Followers
    <3> QED
      BY <1>8, <1>a, <2>1, <3>1, StillEnough
  <2> QED
    BY <1>0, <1>8, <1>a, <2>1 DEF RetentionInv, RetentionTypeOK
<1>9. CASE DeleteNext
  BY <1>7, <1>9 DEF DeleteNext
<1>10. CASE DeleteFails
  BY <1>8, <1>10 DEF DeleteFails
<1>11. CASE ScanAborted
  BY <1>8, <1>11 DEF ScanAborted
<1>12. CASE UNCHANGED retentionVars
  BY <1>12, <1>8 DEF retentionVars
<1> QED
  BY <1>1, <1>2, <1>3, <1>4, <1>5, <1>6, <1>9, <1>10, <1>11, <1>12 DEF RetentionNext

\* In every reachable state enough newer runs stay behind each deleted or
\* picked run, for any number of agents and runs and any limits.
THEOREM RetentionInvariant == RetentionSpec => []RetentionInv
<1>1. RetentionInit => RetentionInv
  BY RetentionInvInit
<1>2. RetentionInv /\ [RetentionNext]_retentionVars => RetentionInv'
  BY RetentionInvStep
<1> QED
  BY <1>1, <1>2, PTL DEF RetentionSpec

\* A deletion takes a finished, old run that PreserveMinPerAgent newer ones
\* follow, although it goes by a list that may be stale.
THEOREM NewestRunsStay == RetentionSpec => PreservesNewest
<1> DEFINE Kept ==
      \A r \in StoredRuns :
        (runObjects'[r].phase = "deleted" /\ runObjects[r].phase # "deleted") =>
            /\ runObjects[r].phase = "finished" /\ runObjects[r].old
            /\ Cardinality({q \in RunsOf(runObjects[r].agent) : q > r}) >= PreserveMinPerAgent
<1>1. RetentionInv /\ [RetentionNext]_retentionVars => [Kept]_retentionVars
  <2> SUFFICES ASSUME RetentionInv, RetentionNext, NEW r \in StoredRuns,
                      runObjects'[r].phase = "deleted", runObjects[r].phase # "deleted"
               PROVE  /\ runObjects[r].phase = "finished" /\ runObjects[r].old
                      /\ Cardinality({q \in RunsOf(runObjects[r].agent) : q > r})
                           >= PreserveMinPerAgent
    OBVIOUS
  <2>0. runObjects \in [StoredRuns -> RunRec] /\ \A q \in StoredRuns : runObjects[q] \in RunRec
    BY RetentionTypes DEF RetentionInv
  <2>1. r \in toDelete
    <3>1. CASE \E q \in StoredRuns, a \in RunAgents : CreateRun(q, a)
      BY <2>0, <3>1 DEF CreateRun, RunRec
    <3>2. CASE \E q \in StoredRuns : FinishRun(q) \/ RunnerDies(q) \/ TtlPasses(q)
      BY <2>0, <3>2 DEF FinishRun, RunnerDies, TtlPasses, RunRec
    <3>3. CASE DeleteNext
      BY <2>0, <3>3 DEF DeleteNext
    <3>4. CASE runObjects' = runObjects
      BY <3>4
    <3> QED
      BY <3>1, <3>2, <3>3, <3>4 DEF RetentionNext, RunCacheSync, Scan, DeleteFails, ScanAborted
  <2>2. /\ runObjects[r].phase = "finished" /\ runObjects[r].old
        /\ Cardinality(Followers(runObjects, r, toDelete)) >= PreserveMinPerAgent
    BY <2>1 DEF RetentionInv
  <2> DEFINE newer == {q \in RunsOf(runObjects[r].agent) : q > r}
  <2>3. newer \subseteq StoredRuns /\ Followers(runObjects, r, toDelete) \subseteq newer
    BY DEF RunsOf, Followers
  <2> HIDE DEF newer
  <2>4. Cardinality(newer) >= PreserveMinPerAgent
    BY <2>2, <2>3, MoreRuns, RetentionConstants
  <2> QED
    BY <2>2, <2>4 DEF newer
<1>2. RetentionSpec => []RetentionInv
  BY RetentionInvariant
<1> QED
  BY <1>1, <1>2, PTL DEF RetentionSpec, PreservesNewest

=============================================================================
