---------------------------- MODULE RunnerProofs ----------------------------
(***************************************************************************)
(* What a run may never do, for any tool calls, guardrails, budgets and    *)
(* lengths of the conversation: RunnerInv is inductive, and the safety     *)
(* properties of Runner follow.                                            *)
(***************************************************************************)
EXTENDS Runner, SequenceTheorems, TLAPS

-----------------------------------------------------------------------------
(* The engine's decision.                                                  *)

\* The first step that stops a call is one of the steps, and none before it
\* stops the call.
LEMMA FirstFailing ==
    ASSUME NEW S \in SUBSET (3..9), S # {}
    PROVE  Min(S) \in S /\ \A step \in S : Min(S) <= step
<1>1. \E x \in S : \A y \in S : x <= y
  <2>1. CASE 3 \in S
    BY <2>1
  <2>2. CASE 3 \notin S /\ 4 \in S
    BY <2>2
  <2>3. CASE 3 \notin S /\ 4 \notin S /\ 5 \in S
    BY <2>3
  <2>4. CASE S \subseteq 6..9 /\ 6 \in S
    BY <2>4
  <2>5. CASE S \subseteq 7..9 /\ 7 \in S
    BY <2>5
  <2>6. CASE S \subseteq 8..9
    <3>1. CASE 8 \in S
      BY <2>6, <3>1
    <3>2. CASE 8 \notin S
      <4>1. \A y \in S : y = 9
        BY <2>6, <3>2
      <4>2. 9 \in S
        BY <4>1
      <4> QED
        BY <4>1, <4>2
    <3> QED
      BY <3>1, <3>2
  <2> QED
    BY <2>1, <2>2, <2>3, <2>4, <2>5, <2>6
<1> QED
  BY <1>1 DEF Min

\* A call that is allowed passes every check.
LEMMA AllowedPasses ==
    ASSUME NEW call, NEW matched, NEW spec, NEW cool,
           Evaluate(call, matched, spec, cool).allowed
    PROVE  LET tier == CallTier(call, matched) IN
           /\ ~call.protected /\ call.class # "blocked"
           /\ ~(call.dataResource /\ tier # "read")
           /\ ~(call.dataNamespace /\ tier = "destructive-mutation")
           /\ ~checkAutonomy(tier, spec.autonomy)
           /\ ~call.denied
           /\ tier = "read" \/ (call.allowed /\ matched # None)
           /\ matched # None => ~checkCooldown(call, matched, cool)
<1>1. Failing(call, matched, spec, cool) = {}
  BY DEF Evaluate
<1>2. \A step \in 3..9 : step \notin Failing(call, matched, spec, cool)
  BY <1>1
<1> QED
  BY <1>2 DEF Failing, checkDataProtection, checkDataResourceImpact, checkDenyList,
              checkAllowList

\* An approval is asked for only when the autonomy is the first thing that
\* stops the call.
LEMMA ApprovalAfterProtection ==
    ASSUME NEW call, NEW matched, NEW spec, NEW cool,
           Evaluate(call, matched, spec, cool).needsApproval
    PROVE  LET tier == CallTier(call, matched) IN
           /\ ~call.protected /\ call.class # "blocked"
           /\ ~(call.dataResource /\ tier # "read")
           /\ ~(call.dataNamespace /\ tier = "destructive-mutation")
           /\ checkAutonomy(tier, spec.autonomy)
           /\ spec.approvalMode \notin {"", "none"}
<1> DEFINE failing == Failing(call, matched, spec, cool)
<1>1. failing # {} /\ Min(failing) = 5 /\ spec.approvalMode \notin {"", "none"}
  BY DEF Evaluate
<1>2. failing \in SUBSET (3..9)
  BY DEF Failing
<1>3. 5 \in failing /\ \A step \in failing : 5 <= step
  BY <1>1, <1>2, FirstFailing
<1>4. 3 \notin failing /\ 4 \notin failing
  BY <1>3
<1>5. checkAutonomy(CallTier(call, matched), spec.autonomy)
  BY <1>3 DEF Failing
<1>6. ~call.protected /\ call.class # "blocked"
  BY <1>4 DEF Failing, checkDataProtection
<1>7. ~checkDataResourceImpact(call, CallTier(call, matched))
  BY <1>4 DEF Failing
<1> QED
  BY <1>1, <1>5, <1>6, <1>7 DEF checkDataResourceImpact

\* A call that is not allowed is recorded as such.
LEMMA StoppedStatus ==
    ASSUME NEW call, NEW matched, NEW spec, NEW cool,
           ~Evaluate(call, matched, spec, cool).allowed
    PROVE  Evaluate(call, matched, spec, cool).status \in {"pending-approval", "skipped", "blocked"}
  BY DEF Evaluate

-----------------------------------------------------------------------------
(* What the steps of the loop do.                                          *)

\* The outcome of a tool call: what it was recorded as, and whether the tool
\* ran.
CallEnds(matched) ==
    \E status \in ActionStatus :
        /\ \E blocked, escalations \in {0, 1} : Record(status, blocked, escalations)
        /\ \/ /\ ~Attempted([call |-> Head(calls), status |-> status])
              /\ UNCHANGED <<cooling, ran, recent>>
           \/ \E ok, approved \in BOOLEAN :
                /\ Execute(matched, approved, ok)
                /\ status \in IF ok THEN {"executed", "approved"} ELSE {"failed"}
                /\ approved => AsksApproval(matched)
                /\ ~approved => Decision(matched).allowed
                /\ cooling \subseteq cooling'
                /\ ok /\ ~approved /\ matched # None =>
                     <<matched.id, Head(calls).target>> \in cooling'
                /\ cooling' \subseteq cooling \cup
                     {<<Head(calls).tool, Head(calls).target>>} \cup
                     (IF matched = None THEN {} ELSE {<<matched.id, Head(calls).target>>})

\* Every step that handles a call ends it in one of these ways.
LEMMA CallsEnd ==
    ASSUME NEW matched,
           CallRefused(matched) \/ CallApproved(matched)
             \/ CallBlocked(matched) \/ CallExecuted(matched)
    PROVE  NextCall(matched) /\ CallEnds(matched)
<1> USE DEF CallEnds, ActionStatus, Attempted
<1>1. CASE CallRefused(matched)
  <2>1. PICK status \in {"blocked", "denied"} : Record(status, 1, 0)
    BY <1>1 DEF CallRefused
  <2> QED
    BY <1>1, <2>1 DEF CallRefused
<1>2. CASE CallApproved(matched)
  <2>1. PICK ok \in BOOLEAN :
          /\ NextCall(matched) /\ AsksApproval(matched)
          /\ Record(IF ok THEN "approved" ELSE "failed", 0, 0)
          /\ Execute(matched, TRUE, ok)
          /\ cooling' = IF ok THEN cooling \cup {<<Head(calls).tool, Head(calls).target>>}
                              ELSE cooling
    BY <1>2 DEF CallApproved
  <2> DEFINE status == IF ok THEN "approved" ELSE "failed"
  <2>2. /\ status \in ActionStatus
        /\ status \in IF ok THEN {"executed", "approved"} ELSE {"failed"}
    OBVIOUS
  <2>3. Record(status, 0, 0)
    BY <2>1
  <2> HIDE DEF status
  <2> QED
    BY <2>1, <2>2, <2>3
<1>3. CASE CallBlocked(matched)
  <2> DEFINE status == Decision(matched).status
  <2>1. status \in {"pending-approval", "skipped", "blocked"}
    BY <1>3, StoppedStatus DEF CallBlocked, Decision
  <2>2. \E escalations \in {0, 1} : Record(status, 1, escalations)
    BY <1>3 DEF CallBlocked
  <2> HIDE DEF status
  <2> QED
    BY <1>3, <2>1, <2>2 DEF CallBlocked
<1>4. CASE CallExecuted(matched)
  <2>1. PICK ok \in BOOLEAN :
          /\ NextCall(matched) /\ Decision(matched).allowed
          /\ Record(IF ok THEN "executed" ELSE "failed", 0, 0)
          /\ Execute(matched, FALSE, ok)
          /\ cooling' = IF ok /\ matched # None
                        THEN cooling \cup {<<matched.id, Head(calls).target>>}
                        ELSE cooling
    BY <1>4 DEF CallExecuted
  <2> DEFINE status == IF ok THEN "executed" ELSE "failed"
  <2>2. /\ status \in ActionStatus
        /\ status \in IF ok THEN {"executed", "approved"} ELSE {"failed"}
    OBVIOUS
  <2>3. Record(status, 0, 0)
    BY <2>1
  <2> HIDE DEF status
  <2> QED
    BY <2>1, <2>2, <2>3
<1> QED
  BY <1>1, <1>2, <1>3, <1>4

\* All other steps leave the records of the run alone.
LEMMA StepKinds ==
    ASSUME [Next]_vars
    PROVE  \/ UNCHANGED <<guardrails, manual, actions, summary, cooling, ran, recent>>
           \/ \E matched \in Entry \cup {None} : NextCall(matched) /\ CallEnds(matched)
           \/ \E key : CooldownLapses(key)
<1> USE DEF loopVars
<1>1. CASE StartFails \/ CreateRun \/ MarkRunning \/ LoopEnds \/ BudgetExhausted
  BY <1>1 DEF StartFails, CreateRun, MarkRunning, LoopEnds, BudgetExhausted
<1>2. CASE CompleteFails \/ CompleteReport \/ CompleteCalls \/ CallsDone
  BY <1>2 DEF CompleteFails, CompleteReport, CompleteCalls, CallsDone
<1>3. CASE Conclude \/ finalizeRun \/ Cleanup \/ ContextExpires \/ Crash
  BY <1>3 DEF Conclude, finalizeRun, Cleanup, ContextExpires, Crash
<1>4. CASE UNCHANGED vars
  BY <1>4 DEF vars
<1>5. ASSUME NEW matched \in Entry \cup {None},
             CallRefused(matched) \/ CallApproved(matched)
               \/ CallBlocked(matched) \/ CallExecuted(matched)
      PROVE  NextCall(matched) /\ CallEnds(matched)
  BY <1>5, CallsEnd
<1> QED
  BY <1>1, <1>2, <1>3, <1>4, <1>5 DEF Next, RunStep, CallStep

-----------------------------------------------------------------------------
(* The types.                                                              *)

RanRec == [call : Calls, matched : Entry \cup {None}, approved : BOOLEAN,
           ok : BOOLEAN, at : Nat]

\* The bounds are positive numbers.
LEMMA Bounds ==
    /\ MaxIterations \in Nat \ {0} /\ TokenBudget \in Nat \ {0}
    /\ KeepPairs \in Nat \ {0} /\ PerCallCap \in Nat \ {0}
  BY RunnerConstants

\* The types that the steps below need one at a time.
LEMMA Types ==
    ASSUME TypeOK
    PROVE  /\ iterations \in Nat /\ iterations <= MaxIterations
           /\ used \in Nat
           /\ messages \in Seq(MessageRec)
           /\ calls \in Seq(Calls)
           /\ actions \in Seq(ActionRecord) /\ Len(actions) \in Nat
           /\ run.phase \in Terminal \cup {"", "Running", None}
           /\ run.actions \in Seq(ActionRecord)
           /\ run = [phase |-> run.phase, actions |-> run.actions]
           /\ ran \in Seq(RanRec)
           /\ cooling \subseteq Key /\ recent \subseteq Key
<1>1. iterations \in 0..MaxIterations /\ used \in Nat
  BY DEF TypeOK
<1>2. messages \in Seq(MessageRec) /\ calls \in Seq(Calls) /\ actions \in Seq(ActionRecord)
  BY DEF TypeOK
<1>3. run \in [phase : Terminal \cup {"", "Running", None}, actions : Seq(ActionRecord)]
  BY DEF TypeOK
<1>4. ran \in Seq(RanRec) /\ cooling \subseteq Key /\ recent \subseteq Key
  BY DEF TypeOK, RanRec
<1>5. iterations \in Nat /\ iterations <= MaxIterations
  BY <1>1, Bounds
<1>6. Len(actions) \in Nat
  BY <1>2
<1>7. /\ run.phase \in Terminal \cup {"", "Running", None}
      /\ run.actions \in Seq(ActionRecord)
      /\ run = [phase |-> run.phase, actions |-> run.actions]
  BY <1>3
<1> QED
  BY <1>1, <1>2, <1>4, <1>5, <1>6, <1>7

\* A message is appended to the conversation.
LEMMA MessageTypes ==
    ASSUME TypeOK, iterations < MaxIterations
    PROVE  /\ iterations \in Nat /\ iterations + 1 \in 0..MaxIterations
           /\ Request \in Seq(MessageRec)
           /\ Append(Request, Message("assistant", iterations + 1)) \in Seq(MessageRec)
<1>1. iterations \in Nat /\ iterations + 1 \in 0..MaxIterations
  <2>1. iterations \in Nat /\ MaxIterations \in Nat
    BY Bounds, Types
  <2> QED
    BY <2>1
<1>2. \A of \in Nat : Message("user", of) \in MessageRec /\ Message("assistant", of) \in MessageRec
  BY DEF Message, MessageRec
<1>3. messages \in Seq(MessageRec)
  BY DEF TypeOK
<1>4. Request \in Seq(MessageRec)
  BY <1>1, <1>2, <1>3, AppendProperties DEF Request
<1> QED
  BY <1>1, <1>2, <1>4, AppendProperties

\* What a response may be charged is a number.
LEMMA UsageTypes ==
    ASSUME TypeOK, used < TokenBudget, NEW n \in Usage
    PROVE  /\ n \in Nat
           /\ \E in \in InputTokens : in \in Nat /\ used + n <= TokenBudget + in
<1>1. PICK in \in InputTokens, out \in 0..capMaxTokens(TokenBudget - used) : n = in + out
  BY DEF Usage
<1>2. /\ TokenBudget \in Nat /\ PerCallCap \in Nat /\ used \in Nat /\ in \in Nat
  BY RunnerConstants DEF TypeOK
<1>3. capMaxTokens(TokenBudget - used) \in Nat /\ capMaxTokens(TokenBudget - used) <= TokenBudget - used
  BY <1>2 DEF capMaxTokens
<1> QED
  BY <1>1, <1>2, <1>3

\* Pruning keeps the type of the conversation.
LEMMA PruneType ==
    ASSUME NEW M, NEW msgs \in Seq(M)
    PROVE  pruneConversation(msgs) \in Seq(M)
<1>1. CASE Len(msgs) <= 2 * KeepPairs + 1
  BY <1>1 DEF pruneConversation
<1>2. CASE ~(Len(msgs) <= 2 * KeepPairs + 1)
  <2>1. KeepPairs \in Nat \ {0} /\ Len(msgs) \in Nat
    BY RunnerConstants
  <2>2. msgs # <<>> /\ Head(msgs) \in M
    BY <1>2, <2>1
  <2>3. SubSeq(msgs, Len(msgs) - 2 * KeepPairs + 1, Len(msgs)) \in Seq(M)
    BY <1>2, <2>1, SubSeqProperties
  <2>4. <<Head(msgs)>> \in Seq(M)
    BY <2>2
  <2> QED
    BY <1>2, <2>3, <2>4 DEF pruneConversation
<1> QED
  BY <1>1, <1>2

\* Handling a call keeps the types of the records.
LEMMA CallTypes ==
    ASSUME TypeOK, NEW matched \in Entry \cup {None}, NextCall(matched), CallEnds(matched)
    PROVE  TypeOK'
<1>1. /\ Head(calls) \in Calls /\ Tail(calls) \in Seq(Calls)
      /\ Head(calls).tool \in Names /\ Head(calls).target \in Targets
  <2>1. Head(calls) \in Calls /\ Tail(calls) \in Seq(Calls)
    <3>1. calls \in Seq(Calls) /\ calls # <<>>
      BY Types DEF NextCall
    <3> QED
      BY <3>1, HeadTailProperties
  <2> QED
    BY <2>1, RunnerConstants DEF Call
<1>2. PICK status \in ActionStatus :
        /\ \E blocked, escalations \in {0, 1} : Record(status, blocked, escalations)
        /\ \/ UNCHANGED <<cooling, ran, recent>>
           \/ \E ok, approved \in BOOLEAN :
                /\ Execute(matched, approved, ok)
                /\ cooling' \subseteq cooling \cup
                     {<<Head(calls).tool, Head(calls).target>>} \cup
                     (IF matched = None THEN {} ELSE {<<matched.id, Head(calls).target>>})
  BY DEF CallEnds
<1>3. PICK blocked \in {0, 1}, escalations \in {0, 1} : Record(status, blocked, escalations)
  BY <1>2
<1>4. /\ actions' = Append(actions, [call |-> Head(calls), status |-> status])
      /\ summary' = [checks |-> summary.checks + 1,
                     blocked |-> summary.blocked + blocked,
                     escalations |-> summary.escalations + escalations]
      /\ calls' = Tail(calls)
      /\ UNCHANGED <<guardrails, pc, manual, ctxDone, iterations, used, messages,
                     phase, report, run, creds>>
  BY <1>3 DEF Record
<1>5. actions' \in Seq(ActionRecord)
  <2>1. [call |-> Head(calls), status |-> status] \in ActionRecord
    BY <1>1 DEF ActionRecord
  <2>2. actions \in Seq(ActionRecord)
    BY DEF TypeOK
  <2> QED
    BY <1>4, <2>1, <2>2, AppendProperties
<1>6. summary' \in [checks : Nat, blocked : Nat, escalations : Nat]
  <2>1. summary.checks \in Nat /\ summary.blocked \in Nat /\ summary.escalations \in Nat
    BY DEF TypeOK
  <2>2. /\ summary.checks + 1 \in Nat /\ summary.blocked + blocked \in Nat
        /\ summary.escalations + escalations \in Nat
    BY <2>1
  <2> QED
    BY <1>4, <2>2
<1>7. /\ <<Head(calls).tool, Head(calls).target>> \in Key
      /\ matched # None => <<matched.id, Head(calls).target>> \in Key
  BY <1>1 DEF Key, Entry
<1>8. cooling' \subseteq Key /\ recent' \subseteq Key /\ ran' \in Seq(RanRec)
  <2>1. cooling \subseteq Key /\ recent \subseteq Key /\ ran \in Seq(RanRec)
        /\ Len(actions) \in Nat
    BY Types
  <2>2. ASSUME NEW ok \in BOOLEAN, NEW approved \in BOOLEAN, Execute(matched, approved, ok)
        PROVE  recent' \subseteq Key /\ ran' \in Seq(RanRec)
    <3> DEFINE e == [call |-> Head(calls), matched |-> matched, approved |-> approved,
                     ok |-> ok, at |-> Len(actions) + 1]
    <3>1. e \in RanRec
      BY <1>1, <2>1 DEF RanRec
    <3>2. ran' = Append(ran, e)
      BY <2>2 DEF Execute
    <3> HIDE DEF e
    <3>3. ran' \in Seq(RanRec)
      BY <2>1, <3>1, <3>2, AppendProperties
    <3>4. recent' \subseteq recent \cup
            (IF matched = None THEN {} ELSE {<<matched.id, Head(calls).target>>})
      BY <2>2 DEF Execute
    <3> QED
      BY <1>7, <2>1, <3>3, <3>4
  <2> QED
    BY <1>2, <1>7, <2>1, <2>2
<1> QED
  BY <1>1, <1>4, <1>5, <1>6, <1>8 DEF TypeOK, RanRec

\* Every step keeps the types.
LEMMA RunnerTypeStep ==
    ASSUME TypeOK, [Next]_vars
    PROVE  TypeOK'
<1> USE DEF loopVars
<1>1. CASE StartFails \/ LoopEnds \/ ContextExpires \/ Crash \/ UNCHANGED vars
  BY <1>1 DEF StartFails, LoopEnds, ContextExpires, Crash, vars, TypeOK
<1>2. CASE CreateRun \/ MarkRunning
  <2>1. run' \in [phase : Terminal \cup {"", "Running", None}, actions : Seq(ActionRecord)]
    <3>1. CASE UNCHANGED run
      BY <3>1 DEF TypeOK
    <3>2. CASE run' = [phase |-> "", actions |-> <<>>]
      <4>1. <<>> \in Seq(ActionRecord)
        BY EmptySeq
      <4> QED
        BY <3>2, <4>1
    <3>3. CASE run' = [run EXCEPT !.phase = "Running"]
      <4>1. run' = [phase |-> "Running", actions |-> run.actions]
        BY <3>3, Types
      <4> QED
        BY <4>1, Types
    <3> QED
      BY <1>2, <3>1, <3>2, <3>3 DEF CreateRun, MarkRunning
  <2> QED
    BY <1>2, <2>1 DEF CreateRun, MarkRunning, TypeOK
<1>3. CASE BudgetExhausted \/ CompleteFails
  <2>1. iterations + 1 \in 0..MaxIterations /\ Request \in Seq(MessageRec)
    BY <1>3, MessageTypes DEF BudgetExhausted, CompleteFails, InLoop
  <2> QED
    BY <1>3, <2>1 DEF BudgetExhausted, CompleteFails, TypeOK, Terminal
<1>4. CASE CompleteReport
  <2>0. /\ iterations + 1 \in 0..MaxIterations
        /\ Append(Request, Message("assistant", iterations + 1)) \in Seq(MessageRec)
    BY <1>4, MessageTypes DEF CompleteReport, InLoop
  <2>1. used' \in Nat
    <3>1. PICK n \in Usage : used' = used + n
      BY <1>4 DEF CompleteReport
    <3>2. n \in Nat /\ used \in Nat
      BY <1>4, UsageTypes, Types DEF CompleteReport
    <3> QED
      BY <3>1, <3>2
  <2> QED
    BY <1>4, <2>1, <2>0 DEF CompleteReport, TypeOK
<1>5. CASE CompleteCalls
  <2>0. /\ iterations + 1 \in 0..MaxIterations
        /\ Append(Request, Message("assistant", iterations + 1)) \in Seq(MessageRec)
    BY <1>5, MessageTypes DEF CompleteCalls, InLoop
  <2>1. used' \in Nat
    <3>1. PICK n \in Usage : used' = used + n
      BY <1>5 DEF CompleteCalls
    <3>2. n \in Nat /\ used \in Nat
      BY <1>5, UsageTypes, Types DEF CompleteCalls
    <3> QED
      BY <3>1, <3>2
  <2>2. calls' \in Seq(Calls)
    BY <1>5, RunnerConstants DEF CompleteCalls
  <2> QED
    BY <1>5, <2>0, <2>1, <2>2 DEF CompleteCalls, TypeOK
<1>6. CASE CallsDone
  <2>1. Message("results", iterations) \in MessageRec /\ messages \in Seq(MessageRec)
    BY Types DEF Message, MessageRec
  <2>2. messages' \in Seq(MessageRec)
    BY <1>6, <2>1, AppendProperties, PruneType DEF CallsDone
  <2> QED
    BY <1>6, <2>2 DEF CallsDone, TypeOK
<1>7. ASSUME NEW matched \in Entry \cup {None},
             CallRefused(matched) \/ CallApproved(matched)
               \/ CallBlocked(matched) \/ CallExecuted(matched)
      PROVE  TypeOK'
  BY <1>7, CallsEnd, CallTypes
<1>8. CASE Conclude
  <2>1. FinalPhase \in Terminal
    BY DEF FinalPhase, Terminal, TypeOK
  <2> QED
    BY <1>8, <2>1 DEF Conclude, TypeOK
<1>9. CASE finalizeRun
  <2>1. run' \in [phase : Terminal \cup {"", "Running", None}, actions : Seq(ActionRecord)]
    <3>1. CASE UNCHANGED run
      BY <3>1 DEF TypeOK
    <3>2. CASE run' = [phase |-> phase, actions |-> actions]
      <4>1. phase \in Terminal /\ actions \in Seq(ActionRecord)
        BY DEF TypeOK
      <4> QED
        BY <3>2, <4>1
    <3> QED
      BY <1>9, <3>1, <3>2 DEF finalizeRun
  <2> QED
    BY <1>9, <2>1 DEF finalizeRun, TypeOK
<1>10. CASE Cleanup
  BY <1>10 DEF Cleanup, TypeOK
<1>11. ASSUME NEW key, CooldownLapses(key)
       PROVE  TypeOK'
  BY <1>11 DEF CooldownLapses, TypeOK
<1> QED
  BY <1>1, <1>2, <1>3, <1>4, <1>5, <1>6, <1>7, <1>8, <1>9, <1>10, <1>11
     DEF Next, RunStep, CallStep

-----------------------------------------------------------------------------
(* What was executed, and the records of it.                               *)

Authorised(e, spec, man) ==
    LET tier == CallTier(e.call, e.matched)
        within == ~checkAutonomy(tier, spec.autonomy)
    IN  /\ ~e.call.protected /\ e.call.class # "blocked"
        /\ ~(e.call.dataResource /\ tier # "read")
        /\ ~(e.call.dataNamespace /\ tier = "destructive-mutation")
        /\ IF e.approved
           THEN ~within /\ ~man /\ spec.approvalMode \notin {"", "none"}
           ELSE /\ within /\ ~e.call.denied
                /\ tier = "read" \/ (e.call.allowed /\ e.matched # None)

RanEntry(matched, approved, ok) ==
    [call |-> Head(calls), matched |-> matched, approved |-> approved,
     ok |-> ok, at |-> Len(actions) + 1]

\* An execution that the engine allowed, or that was approved, is within the
\* agent's authority.
LEMMA ExecutionAuthorised ==
    ASSUME NEW matched, NEW approved \in BOOLEAN, NEW ok,
           approved => AsksApproval(matched),
           ~approved => Decision(matched).allowed
    PROVE  Authorised(RanEntry(matched, approved, ok), guardrails, manual)
<1> DEFINE e == RanEntry(matched, approved, ok)
<1>1. e.call = Head(calls) /\ e.matched = matched /\ e.approved = approved
  BY DEF RanEntry
<1> HIDE DEF e
<1>2. CASE approved
  <2>1. ~manual /\ Evaluate(Head(calls), matched, guardrails, cooling).needsApproval
    BY <1>2 DEF AsksApproval, Decision
  <2> QED
    BY <1>1, <1>2, <2>1, ApprovalAfterProtection DEF Authorised, e
<1>3. CASE ~approved
  <2>1. Evaluate(Head(calls), matched, guardrails, cooling).allowed
    BY <1>3 DEF Decision
  <2> QED
    BY <1>1, <1>3, <2>1, AllowedPasses DEF Authorised, e
<1> QED
  BY <1>2, <1>3

\* What handling a call does to the records, in terms of one new record and
\* at most one new execution.
LEMMA CallRecords ==
    ASSUME NEW matched, CallEnds(matched)
    PROVE  /\ UNCHANGED <<guardrails, manual, pc, iterations, used, messages, run>>
           /\ summary'.checks = summary.checks + 1
           /\ \E status \in ActionStatus :
                /\ actions' = Append(actions, [call |-> Head(calls), status |-> status])
                /\ \/ /\ ~Attempted([call |-> Head(calls), status |-> status])
                      /\ UNCHANGED <<cooling, ran, recent>>
                   \/ \E ok, approved \in BOOLEAN :
                        /\ ran' = Append(ran, RanEntry(matched, approved, ok))
                        /\ status \in IF ok THEN {"executed", "approved"} ELSE {"failed"}
                        /\ approved => AsksApproval(matched)
                        /\ ~approved => Decision(matched).allowed
<1>1. PICK status \in ActionStatus :
        /\ \E blocked, escalations \in {0, 1} : Record(status, blocked, escalations)
        /\ \/ /\ ~Attempted([call |-> Head(calls), status |-> status])
              /\ UNCHANGED <<cooling, ran, recent>>
           \/ \E ok, approved \in BOOLEAN :
                /\ Execute(matched, approved, ok)
                /\ status \in IF ok THEN {"executed", "approved"} ELSE {"failed"}
                /\ approved => AsksApproval(matched)
                /\ ~approved => Decision(matched).allowed
  BY DEF CallEnds
<1>2. PICK blocked \in {0, 1}, escalations \in {0, 1} : Record(status, blocked, escalations)
  BY <1>1
<1>3. /\ UNCHANGED <<guardrails, manual, pc, iterations, used, messages, run>>
      /\ actions' = Append(actions, [call |-> Head(calls), status |-> status])
      /\ summary' = [checks |-> summary.checks + 1,
                     blocked |-> summary.blocked + blocked,
                     escalations |-> summary.escalations + escalations]
  BY <1>2 DEF Record
<1>4. summary'.checks = summary.checks + 1
  BY <1>3
<1>5. \A ok, approved \in BOOLEAN :
        Execute(matched, approved, ok) => ran' = Append(ran, RanEntry(matched, approved, ok))
  BY DEF Execute, RanEntry
<1> QED
  BY <1>1, <1>3, <1>4, <1>5

\* Every step keeps the executions within the agent's authority.
LEMMA AuthorityStep ==
    ASSUME TypeOK, ExecutedWithinAuthority, [Next]_vars
    PROVE  ExecutedWithinAuthority'
<1>1. \A i \in DOMAIN ran : Authorised(ran[i], guardrails, manual)
  BY DEF ExecutedWithinAuthority, RanEntries, Authorised
<1>2. SUFFICES \A i \in DOMAIN ran' : Authorised(ran'[i], guardrails', manual')
  BY <1>2 DEF ExecutedWithinAuthority, RanEntries, Authorised
<1>3. UNCHANGED <<guardrails, manual>>
  BY StepKinds, CallRecords DEF CooldownLapses
<1>4. CASE UNCHANGED ran
  BY <1>1, <1>3, <1>4
<1>5. ASSUME NEW matched, NEW ok \in BOOLEAN, NEW approved \in BOOLEAN,
             ran' = Append(ran, RanEntry(matched, approved, ok)),
             approved => AsksApproval(matched),
             ~approved => Decision(matched).allowed
      PROVE  \A i \in DOMAIN ran' : Authorised(ran'[i], guardrails, manual)
  <2>1. Authorised(RanEntry(matched, approved, ok), guardrails, manual)
    BY <1>5, ExecutionAuthorised
  <2>2. ran \in Seq(RanRec)
    BY Types
  <2>3. \A i \in DOMAIN ran' : ran'[i] = RanEntry(matched, approved, ok)
                                 \/ (i \in DOMAIN ran /\ ran'[i] = ran[i])
    BY <1>5, <2>2
  <2> QED
    BY <1>1, <2>1, <2>3
<1> QED
  BY <1>3, <1>4, <1>5, StepKinds, CallRecords DEF CooldownLapses

Listing(records, executed, checks) ==
    /\ Len(records) = checks
    /\ \A i \in DOMAIN executed :
         /\ executed[i].at \in DOMAIN records
         /\ records[executed[i].at].call = executed[i].call
         /\ records[executed[i].at].status \in IF executed[i].ok THEN {"executed", "approved"}
                                                                ELSE {"failed"}
    /\ \A i, j \in DOMAIN executed : i < j => executed[i].at < executed[j].at
    /\ \A k \in DOMAIN records :
         Attempted(records[k]) => \E i \in DOMAIN executed : executed[i].at = k

\* The records stay complete when a record that claims no execution is added.
LEMMA ListingRecord ==
    ASSUME NEW records \in Seq(ActionRecord), NEW executed \in Seq(RanRec), NEW checks \in Nat,
           Listing(records, executed, checks),
           NEW r \in ActionRecord, ~Attempted(r)
    PROVE  Listing(Append(records, r), executed, checks + 1)
<1> DEFINE grown == Append(records, r)
<1>1. /\ Len(grown) = Len(records) + 1 /\ Len(records) \in Nat
      /\ DOMAIN grown = 1..Len(records) + 1 /\ DOMAIN records = 1..Len(records)
      /\ \A k \in DOMAIN records : k \in DOMAIN grown /\ grown[k] = records[k]
      /\ grown[Len(records) + 1] = r
  OBVIOUS
<1> HIDE DEF grown
<1>2. \A k \in DOMAIN grown : k \in DOMAIN records \/ grown[k] = r
  BY <1>1
<1> QED
  BY <1>1, <1>2 DEF Listing, grown

\* They stay complete when an execution and its record are added.
LEMMA ListingExecution ==
    ASSUME NEW records \in Seq(ActionRecord), NEW executed \in Seq(RanRec), NEW checks \in Nat,
           Listing(records, executed, checks),
           NEW r \in ActionRecord, NEW e \in RanRec,
           e.at = Len(records) + 1, e.call = r.call,
           r.status \in IF e.ok THEN {"executed", "approved"} ELSE {"failed"}
    PROVE  Listing(Append(records, r), Append(executed, e), checks + 1)
<1> DEFINE grown == Append(records, r)
           more == Append(executed, e)
<1>1. /\ Len(grown) = Len(records) + 1 /\ Len(records) \in Nat
      /\ DOMAIN grown = 1..Len(records) + 1 /\ DOMAIN records = 1..Len(records)
      /\ \A k \in DOMAIN records : k \in DOMAIN grown /\ grown[k] = records[k]
      /\ grown[Len(records) + 1] = r
  OBVIOUS
<1>2. /\ Len(executed) \in Nat
      /\ DOMAIN more = 1..Len(executed) + 1 /\ DOMAIN executed = 1..Len(executed)
      /\ \A i \in DOMAIN executed : i \in DOMAIN more /\ more[i] = executed[i]
      /\ more[Len(executed) + 1] = e
  OBVIOUS
<1> HIDE DEF grown, more
<1>3. \A i \in DOMAIN executed : executed[i].at \in DOMAIN records
  BY DEF Listing
<1>4. \A k \in DOMAIN grown : k \in DOMAIN records \/ (k = Len(records) + 1 /\ grown[k] = r)
  BY <1>1
<1>5. \A i \in DOMAIN more : \/ i \in DOMAIN executed /\ i # Len(executed) + 1
                             \/ i = Len(executed) + 1 /\ more[i] = e
  BY <1>2
<1>6. Len(grown) = checks + 1
  BY <1>1 DEF Listing
<1>7. \A i \in DOMAIN more :
        /\ more[i].at \in DOMAIN grown
        /\ grown[more[i].at].call = more[i].call
        /\ grown[more[i].at].status \in IF more[i].ok THEN {"executed", "approved"} ELSE {"failed"}
  <2> TAKE i \in DOMAIN more
  <2>1. CASE i \in DOMAIN executed
    BY <2>1, <1>1, <1>2, <1>3 DEF Listing
  <2>2. CASE more[i] = e
    <3>1. e.at \in DOMAIN grown /\ grown[e.at] = r
      BY <1>1
    <3> QED
      BY <2>2, <3>1
  <2> QED
    BY <1>5, <2>1, <2>2
<1>8. ASSUME NEW i \in DOMAIN more, NEW j \in DOMAIN more, i < j
      PROVE  more[i].at < more[j].at
  <2>1. i \in DOMAIN executed
    BY <1>2, <1>8
  <2>2. CASE j \in DOMAIN executed
    BY <1>2, <1>8, <2>1, <2>2 DEF Listing
  <2>3. CASE more[j] = e
    <3>1. executed[i].at \in 1..Len(records)
      BY <1>1, <1>3, <2>1
    <3>2. executed[i].at < Len(records) + 1
      BY <1>1, <3>1
    <3> QED
      BY <1>2, <2>1, <2>3, <3>2
  <2> QED
    BY <1>5, <2>2, <2>3
<1>9. ASSUME NEW k \in DOMAIN grown, Attempted(grown[k])
      PROVE  \E i \in DOMAIN more : more[i].at = k
  <2>1. CASE k \in DOMAIN records
    <3>1. PICK i \in DOMAIN executed : executed[i].at = k
      BY <1>1, <1>9, <2>1 DEF Listing
    <3> QED
      BY <1>2, <3>1
  <2>2. CASE k = Len(records) + 1
    <3>1. Len(executed) + 1 \in DOMAIN more
      BY <1>2
    <3> QED
      BY <1>2, <2>2, <3>1
  <2> QED
    BY <1>4, <2>1, <2>2
<1> QED
  BY <1>6, <1>7, <1>8, <1>9 DEF Listing, grown, more

\* Every step keeps the records complete.
LEMMA ListsStep ==
    ASSUME TypeOK, Lists(actions), [Next]_vars
    PROVE  Lists(actions)'
<1>1. Listing(actions, ran, summary.checks)
  BY DEF Lists, Listing
<1>2. SUFFICES Listing(actions', ran', summary'.checks)
  BY <1>2 DEF Lists, Listing
<1>3. /\ actions \in Seq(ActionRecord) /\ ran \in Seq(RanRec) /\ Len(actions) \in Nat
      /\ calls \in Seq(Calls)
  BY Types
<1>4. summary.checks \in Nat
  BY DEF TypeOK
<1>5. ASSUME NEW matched \in Entry \cup {None}, NextCall(matched), CallEnds(matched)
      PROVE  Listing(actions', ran', summary'.checks)
  <2>1. PICK status \in ActionStatus :
          /\ actions' = Append(actions, [call |-> Head(calls), status |-> status])
          /\ \/ /\ ~Attempted([call |-> Head(calls), status |-> status])
                /\ UNCHANGED ran
             \/ \E ok, approved \in BOOLEAN :
                  /\ ran' = Append(ran, RanEntry(matched, approved, ok))
                  /\ status \in IF ok THEN {"executed", "approved"} ELSE {"failed"}
    BY <1>5, CallRecords
  <2>2. summary'.checks = summary.checks + 1
    BY <1>5, CallRecords
  <2>3. Head(calls) \in Calls
    BY <1>3, <1>5 DEF NextCall
  <2> DEFINE r == [call |-> Head(calls), status |-> status]
  <2>4. r \in ActionRecord /\ r.call = Head(calls) /\ r.status = status
    BY <2>3 DEF ActionRecord
  <2> HIDE DEF r
  <2>5. CASE ~Attempted(r) /\ UNCHANGED ran
    BY <1>1, <1>3, <1>4, <2>1, <2>2, <2>4, <2>5, ListingRecord DEF r
  <2>6. ASSUME NEW ok \in BOOLEAN, NEW approved \in BOOLEAN,
               ran' = Append(ran, RanEntry(matched, approved, ok)),
               status \in IF ok THEN {"executed", "approved"} ELSE {"failed"}
        PROVE  Listing(actions', ran', summary'.checks)
    <3> DEFINE e == RanEntry(matched, approved, ok)
    <3>1. e.at = Len(actions) + 1 /\ e.call = Head(calls) /\ e.ok = ok /\ e \in RanRec
      BY <1>3, <2>3 DEF RanEntry, RanRec
    <3> HIDE DEF e
    <3>2. Listing(Append(actions, r), Append(ran, e), summary.checks + 1)
      BY <1>1, <1>3, <1>4, <2>4, <2>6, <3>1, ListingExecution
    <3> QED
      BY <2>1, <2>2, <2>6, <3>2 DEF r, e
  <2> QED
    BY <2>1, <2>5, <2>6 DEF r
<1> QED
  BY <1>1, <1>5, StepKinds DEF CooldownLapses

\* A run in a terminal phase holds the final records.
RunFinal == run.phase \in Terminal => pc \in {"cleanup", "returned"} /\ run.actions = actions

\* Only finalizeRun gives the run a terminal phase, and nothing is recorded
\* after it.
LEMMA RunFinalStep ==
    ASSUME TypeOK, RunFinal, [Next]_vars
    PROVE  RunFinal'
<1> USE DEF loopVars
<1>1. CASE UNCHANGED <<run, pc, actions>>
  BY <1>1 DEF RunFinal
<1>2. CASE StartFails \/ Cleanup \/ Crash
  BY <1>2 DEF StartFails, Cleanup, Crash, RunFinal
<1>3. CASE CreateRun \/ MarkRunning
  <2>1. run'.phase \notin Terminal \/ UNCHANGED run
    <3>1. CASE CreateRun
      BY <3>1 DEF CreateRun, Terminal
    <3>2. CASE MarkRunning
      <4>1. run = [phase |-> run.phase, actions |-> run.actions]
        BY Types
      <4>2. [run EXCEPT !.phase = "Running"].phase = "Running"
        BY <4>1
      <4> QED
        BY <3>2, <4>2 DEF MarkRunning, Terminal
    <3> QED
      BY <1>3, <3>1, <3>2
  <2> QED
    BY <1>3, <2>1 DEF CreateRun, MarkRunning, RunFinal
<1>4. CASE LoopEnds \/ BudgetExhausted \/ CompleteFails \/ CompleteReport \/ CompleteCalls
  BY <1>4 DEF LoopEnds, BudgetExhausted, CompleteFails, CompleteReport, CompleteCalls,
              InLoop, RunFinal
<1>5. CASE CallsDone \/ Conclude
  BY <1>5 DEF CallsDone, Conclude, RunFinal
<1>6. ASSUME NEW matched, NextCall(matched), CallEnds(matched)
      PROVE  RunFinal'
  BY <1>6, CallRecords DEF NextCall, RunFinal
<1>7. CASE finalizeRun
  BY <1>7 DEF finalizeRun, RunFinal
<1> QED
  BY <1>1, <1>2, <1>3, <1>4, <1>5, <1>6, <1>7, CallsEnd
     DEF Next, RunStep, CallStep, ContextExpires, CooldownLapses, vars

\* What ran within its cooldown is known to the tracker.
LEMMA CooldownStep ==
    ASSUME recent \subseteq cooling, [Next]_vars
    PROVE  recent' \subseteq cooling'
<1>1. ASSUME NEW matched, CallEnds(matched)
      PROVE  recent' \subseteq cooling'
  BY <1>1 DEF CallEnds, Execute
<1> QED
  BY <1>1, StepKinds DEF CooldownLapses

-----------------------------------------------------------------------------
(* The token budget.                                                       *)

\* The largest input bounds every input.
LEMMA LargestInput ==
    /\ Max(InputTokens \cup {0}) \in Nat
    /\ \A n \in InputTokens : n <= Max(InputTokens \cup {0})
<1>1. PICK m \in InputTokens \cup {0} : \A n \in InputTokens : n <= m
  BY RunnerConstants
<1>2. InputTokens \cup {0} \subseteq Nat
  BY RunnerConstants
<1>3. \A n \in InputTokens \cup {0} : m >= n
  BY <1>1, <1>2
<1>4. \E x \in InputTokens \cup {0} : \A y \in InputTokens \cup {0} : x >= y
  BY <1>3
<1>5. /\ Max(InputTokens \cup {0}) \in InputTokens \cup {0}
      /\ \A y \in InputTokens \cup {0} : Max(InputTokens \cup {0}) >= y
  BY <1>4 DEF Max
<1>6. Max(InputTokens \cup {0}) \in Nat
  BY <1>2, <1>5
<1> QED
  BY <1>2, <1>5, <1>6

\* Tokens are only charged for a response, and only below the budget.
LEMMA UsedStep ==
    ASSUME [Next]_vars
    PROVE  \/ UNCHANGED used
           \/ used < TokenBudget /\ \E n \in Usage : used' = used + n
<1> USE DEF loopVars
<1>1. CASE StartFails \/ CreateRun \/ MarkRunning \/ LoopEnds \/ BudgetExhausted
  BY <1>1 DEF StartFails, CreateRun, MarkRunning, LoopEnds, BudgetExhausted
<1>2. CASE CompleteFails \/ CompleteReport \/ CompleteCalls \/ CallsDone
  BY <1>2 DEF CompleteFails, CompleteReport, CompleteCalls, CallsDone
<1>3. CASE Conclude \/ finalizeRun \/ Cleanup \/ ContextExpires \/ Crash
  BY <1>3 DEF Conclude, finalizeRun, Cleanup, ContextExpires, Crash
<1> QED
  BY <1>1, <1>2, <1>3, CallsEnd, CallRecords
     DEF Next, RunStep, CallStep, CooldownLapses, vars

\* One response takes a run over its budget by no more than its input.
LEMMA OvershootStep ==
    ASSUME TypeOK, OvershootBounded, [Next]_vars
    PROVE  OvershootBounded'
<1>1. CASE UNCHANGED used
  BY <1>1 DEF OvershootBounded
<1>2. ASSUME used < TokenBudget, NEW n \in Usage, used' = used + n
      PROVE  OvershootBounded'
  <2>1. PICK in \in InputTokens : in \in Nat /\ used + n <= TokenBudget + in
    BY <1>2, UsageTypes
  <2>2. in <= Max(InputTokens \cup {0}) /\ Max(InputTokens \cup {0}) \in Nat
    BY LargestInput
  <2>3. used \in Nat /\ n \in Nat /\ TokenBudget \in Nat
    BY <1>2, Types, UsageTypes, Bounds
  <2>4. used + n <= TokenBudget + Max(InputTokens \cup {0})
    BY <2>1, <2>2, <2>3
  <2> QED
    BY <1>2, <2>4 DEF OvershootBounded
<1> QED
  BY <1>1, <1>2, UsedStep

-----------------------------------------------------------------------------
(* The conversation.                                                       *)

\* The first n messages are the instruction and whole exchanges, whatever n.
Alternate(msgs, n) ==
    /\ n % 2 = 1 /\ n <= Len(msgs)
    /\ msgs[1] = Message("user", 0)
    /\ \A i \in 2..n :
         IF i % 2 = 0 THEN msgs[i].role = "assistant"
         ELSE msgs[i] = Message("results", msgs[i - 1].of)

\* Odd and even numbers take turns.
LEMMA Parity ==
    ASSUME NEW n \in Nat
    PROVE  /\ n % 2 \in {0, 1}
           /\ (n + 1) % 2 = 1 - (n % 2)
           /\ (n + 2) % 2 = n % 2
           /\ n % 2 = 1 => n >= 1
  OBVIOUS

\* A response and its results are one more exchange.
LEMMA ExchangeAdded ==
    ASSUME NEW msgs \in Seq(MessageRec), NEW of \in Nat, Len(msgs) >= 1,
           Alternate(msgs, Len(msgs) - 1),
           msgs[Len(msgs)] = Message("assistant", of)
    PROVE  Alternate(Append(msgs, Message("results", of)), Len(msgs) + 1)
<1> DEFINE L == Len(msgs)
           more == Append(msgs, Message("results", of))
<1>1. L \in Nat /\ L - 1 \in Nat
  OBVIOUS
<1>2. /\ Len(more) = L + 1
      /\ \A i \in 1..L : more[i] = msgs[i]
      /\ more[L + 1] = Message("results", of)
  <2>1. Message("results", of) \in MessageRec
    BY DEF Message, MessageRec
  <2> QED
    BY <2>1, AppendProperties
<1>3. (L - 1) % 2 = 1 /\ L % 2 = 0 /\ (L + 1) % 2 = 1 /\ L >= 2
  <2>1. (L - 1) % 2 = 1
    BY DEF Alternate
  <2> QED
    BY <1>1, <2>1
<1>4. msgs[L].role = "assistant" /\ msgs[L].of = of
  BY DEF Message
<1> HIDE DEF L, more
<1>5. more[1] = Message("user", 0)
  BY <1>1, <1>2, <1>3 DEF Alternate, L
<1>6. ASSUME NEW i \in 2..L + 1
      PROVE  IF i % 2 = 0 THEN more[i].role = "assistant"
             ELSE more[i] = Message("results", more[i - 1].of)
  <2>1. CASE i = L + 1
    BY <1>1, <1>2, <1>3, <1>4, <2>1 DEF L
  <2>2. CASE i = L
    BY <1>1, <1>2, <1>3, <1>4, <2>2 DEF L
  <2>3. CASE i \in 2..L - 1
    <3>1. i \in 1..L /\ i - 1 \in 1..L
      BY <1>1, <2>3
    <3>2. more[i] = msgs[i] /\ more[i - 1] = msgs[i - 1]
      BY <1>2, <3>1
    <3>3. IF i % 2 = 0 THEN msgs[i].role = "assistant"
          ELSE msgs[i] = Message("results", msgs[i - 1].of)
      BY <2>3 DEF Alternate, L
    <3> QED
      BY <3>2, <3>3
  <2> QED
    BY <1>1, <1>6, <2>1, <2>2, <2>3
<1>7. L + 1 <= Len(more)
  BY <1>1, <1>2
<1> QED
  BY <1>3, <1>5, <1>6, <1>7 DEF Alternate, L, more

\* Pruning drops whole exchanges: at most one exchange is over the limit.
LEMMA PruneExchanges ==
    ASSUME NEW msgs \in Seq(MessageRec), Alternate(msgs, Len(msgs)),
           Len(msgs) <= 2 * KeepPairs + 3
    PROVE  LET kept == pruneConversation(msgs) IN
           Alternate(kept, Len(kept)) /\ Len(kept) <= 2 * KeepPairs + 1
<1> DEFINE L == Len(msgs)
           K == 2 * KeepPairs + 1
           kept == pruneConversation(msgs)
<1>1. K \in Nat /\ L \in Nat /\ KeepPairs \in Nat \ {0} /\ K >= 3 /\ K % 2 = 1
  BY Bounds
<1>2. CASE L <= K
  BY <1>2 DEF pruneConversation
<1>3. CASE ~(L <= K)
  <2>1. L = K + 2
    <3>1. L % 2 = 1 /\ (K + 1) % 2 = 0
      BY <1>1 DEF Alternate
    <3> QED
      BY <1>1, <1>3, <3>1
  <2>2. kept = <<Head(msgs)>> \o SubSeq(msgs, 4, L)
    BY <1>1, <1>3, <2>1 DEF pruneConversation
  <2>3. Head(msgs) = msgs[1] /\ <<Head(msgs)>> \in Seq(MessageRec)
    BY <1>1, <2>1
  <2>4. /\ SubSeq(msgs, 4, L) \in Seq(MessageRec)
        /\ Len(SubSeq(msgs, 4, L)) = L - 3
        /\ \A i \in 1..L - 3 : SubSeq(msgs, 4, L)[i] = msgs[i + 3]
    BY <1>1, <2>1
  <2> DEFINE tail == SubSeq(msgs, 4, L)
             first == <<Head(msgs)>>
  <2>5. /\ Len(kept) = K
        /\ kept[1] = msgs[1]
        /\ \A i \in 2..K : kept[i] = msgs[i + 2]
    <3>1. Len(first) = 1 /\ first[1] = msgs[1] /\ first \in Seq(MessageRec)
      BY <2>3
    <3> HIDE DEF first, tail, kept
    <3>2. tail \in Seq(MessageRec) /\ Len(tail) = L - 3
      BY <2>4 DEF tail
    <3>3. /\ Len(first \o tail) = Len(first) + Len(tail)
          /\ \A i \in 1..Len(first) + Len(tail) :
               (first \o tail)[i] = IF i <= Len(first) THEN first[i] ELSE tail[i - Len(first)]
      BY <3>1, <3>2, ConcatProperties
    <3>4. Len(first \o tail) = K /\ (first \o tail)[1] = first[1]
      BY <1>1, <2>1, <3>1, <3>2, <3>3
    <3>5. ASSUME NEW i \in 2..K
          PROVE  (first \o tail)[i] = msgs[i + 2]
      <4>1. i - 1 \in 1..L - 3
        BY <1>1, <2>1
      <4>2. (first \o tail)[i] = tail[i - 1]
        BY <1>1, <2>1, <3>1, <3>2, <3>3
      <4>3. tail[i - 1] = msgs[(i - 1) + 3]
        BY <2>4, <4>1 DEF tail
      <4> QED
        BY <4>2, <4>3
    <3> QED
      BY <2>2, <3>1, <3>4, <3>5 DEF first, tail
  <2> HIDE DEF L, K, kept
  <2>6. kept[1] = Message("user", 0)
    BY <2>5 DEF Alternate
  <2>7. ASSUME NEW i \in 2..K
        PROVE  IF i % 2 = 0 THEN kept[i].role = "assistant"
               ELSE kept[i] = Message("results", kept[i - 1].of)
    <3>1. i + 2 \in 2..L /\ (i + 2) % 2 = i % 2 /\ (i + 2) - 1 = (i - 1) + 2 /\ i \in Nat
      BY <1>1, <2>1
    <3>2. IF i % 2 = 0 THEN msgs[i + 2].role = "assistant"
          ELSE msgs[i + 2] = Message("results", msgs[(i - 1) + 2].of)
      BY <3>1 DEF Alternate, L
    <3>3. CASE i % 2 = 0
      BY <2>5, <3>2, <3>3
    <3>4. CASE i % 2 # 0
      <4>1. i - 1 \in 2..K
        BY <1>1, <3>1, <3>4
      <4>2. kept[i - 1] = msgs[(i - 1) + 2]
        BY <2>5, <4>1
      <4> QED
        BY <2>5, <3>2, <3>4, <4>2
    <3> QED
      BY <3>3, <3>4
  <2> QED
    BY <1>1, <2>5, <2>6, <2>7 DEF Alternate, K, kept
<1> QED
  BY <1>2, <1>3

Talk ==
    /\ pc \in {"assemble", "mark", "llm"} /\ iterations < MaxIterations =>
         Exchanges(Len(messages))
    /\ pc = "calls" /\ iterations < MaxIterations =>
         /\ Exchanges(Len(messages) - 1)
         /\ messages[Len(messages)] = Message("assistant", iterations)

\* The steps that change the conversation keep it made of whole exchanges.
LEMMA TalkStep ==
    ASSUME TypeOK, Talk, [Next]_vars
    PROVE  Talk'
<1> USE DEF loopVars
<1>1. CASE UNCHANGED <<messages, iterations>> /\ (pc' = pc \/ pc' \in {"conclude", "finalize", "cleanup", "returned"}
                          \/ (pc \in {"assemble", "mark"} /\ pc' \in {"mark", "llm"}))
  BY <1>1 DEF Talk, Exchanges
<1>2. CASE pc' \in {"conclude", "finalize", "cleanup", "returned"}
  BY <1>2 DEF Talk
<1>3. CASE CompleteCalls
  <2>1. SUFFICES ASSUME iterations' < MaxIterations
                 PROVE  /\ Exchanges(Len(messages) - 1)'
                        /\ messages'[Len(messages')] = Message("assistant", iterations')
    BY <1>3 DEF CompleteCalls, Talk
  <2>2. iterations' = iterations + 1 /\ iterations \in Nat /\ MaxIterations \in Nat
    BY <1>3, Types, Bounds DEF CompleteCalls
  <2>3. Exchanges(Len(messages))
    BY <1>3 DEF CompleteCalls, InLoop, Talk
  <2>4. messages' = Append(messages, Message("assistant", iterations'))
    BY <1>3, <2>1, <2>2 DEF CompleteCalls, Request
  <2>5. messages \in Seq(MessageRec) /\ Message("assistant", iterations') \in MessageRec
    <3>1. iterations' \in Nat
      BY <2>2
    <3> QED
      BY <3>1, Types DEF Message, MessageRec
  <2>6. /\ Len(messages') = Len(messages) + 1 /\ Len(messages) \in Nat
        /\ \A i \in 1..Len(messages) : messages'[i] = messages[i]
        /\ messages'[Len(messages) + 1] = Message("assistant", iterations')
    <3> DEFINE m == Message("assistant", iterations')
    <3>1. messages' = Append(messages, m) /\ m \in MessageRec /\ messages \in Seq(MessageRec)
      BY <2>4, <2>5
    <3> HIDE DEF m
    <3>2. Len(messages) \in Nat
      BY <3>1
    <3>3. /\ Len(messages') = Len(messages) + 1
          /\ \A i \in 1..Len(messages) : messages'[i] = messages[i]
          /\ messages'[Len(messages) + 1] = m
      BY <3>1, AppendProperties
    <3> QED
      BY <3>2, <3>3 DEF m
  <2>7. Len(messages') - 1 = Len(messages)
    BY <2>6
  <2>8. Exchanges(Len(messages) - 1)'
    <3> DEFINE L == Len(messages)
    <3>1. /\ L % 2 = 1 /\ L <= 2 * KeepPairs + 1
          /\ messages[1] = Message("user", 0)
          /\ \A i \in 2..L :
               IF i % 2 = 0 THEN messages[i].role = "assistant"
               ELSE messages[i] = Message("results", messages[i - 1].of)
      BY <2>3 DEF Exchanges
    <3>2. L >= 1 /\ L \in Nat /\ L <= Len(messages')
      BY <2>6, <3>1
    <3> HIDE DEF L
    <3>3. messages'[1] = Message("user", 0)
      BY <2>6, <3>1, <3>2 DEF L
    <3>4. ASSUME NEW i \in 2..L
          PROVE  messages'[i] = messages[i] /\ messages'[i - 1] = messages[i - 1]
      BY <2>6, <3>2 DEF L
    <3>5. \A i \in 2..L :
            IF i % 2 = 0 THEN messages'[i].role = "assistant"
            ELSE messages'[i] = Message("results", messages'[i - 1].of)
      BY <3>1, <3>4
    <3> QED
      BY <2>7, <3>1, <3>2, <3>3, <3>5 DEF Exchanges, Message, L
  <2> QED
    BY <2>6, <2>8
<1>4. CASE CallsDone
  <2>1. SUFFICES ASSUME iterations < MaxIterations
                 PROVE  Exchanges(Len(messages))'
    BY <1>4 DEF CallsDone, Talk
  <2> DEFINE more == Append(messages, Message("results", iterations))
  <2>2. /\ Exchanges(Len(messages) - 1)
        /\ messages[Len(messages)] = Message("assistant", iterations)
    BY <1>4, <2>1 DEF CallsDone, Talk
  <2>3. /\ messages \in Seq(MessageRec) /\ iterations \in Nat
        /\ Message("results", iterations) \in MessageRec
    BY Types DEF Message, MessageRec
  <2>4. Len(messages) \in Nat /\ KeepPairs \in Nat
    BY <2>3, Bounds
  <2>5. /\ Alternate(messages, Len(messages) - 1) /\ Len(messages) - 1 <= 2 * KeepPairs + 1
        /\ Len(messages) - 1 >= 1
    BY <2>2, <2>4 DEF Exchanges, Alternate
  <2>6. Len(messages) >= 1
    BY <2>4, <2>5
  <2>7. Alternate(more, Len(messages) + 1)
    BY <2>2, <2>3, <2>5, <2>6, ExchangeAdded
  <2>8. more \in Seq(MessageRec) /\ Len(more) = Len(messages) + 1
    BY <2>3, AppendProperties
  <2>9. Len(more) <= 2 * KeepPairs + 3
    BY <2>4, <2>5, <2>8
  <2>10. messages' = pruneConversation(more)
    BY <1>4 DEF CallsDone
  <2> HIDE DEF more
  <2>11. Alternate(messages', Len(messages')) /\ Len(messages') <= 2 * KeepPairs + 1
    BY <2>7, <2>8, <2>9, <2>10, PruneExchanges
  <2>12. /\ Len(messages') >= 1 /\ Len(messages') % 2 = 1 /\ Len(messages') <= Len(messages')
         /\ messages'[1] = Message("user", 0)
         /\ \A i \in 2..Len(messages') :
              IF i % 2 = 0 THEN messages'[i].role = "assistant"
              ELSE messages'[i] = Message("results", messages'[i - 1].of)
    <3>1. Len(messages') \in Nat
      BY <2>3, <2>8, <2>10, PruneType
    <3>2. Len(messages') % 2 = 1
      BY <2>11 DEF Alternate
    <3> QED
      BY <2>11, <3>1, <3>2 DEF Alternate
  <2> QED
    BY <2>11, <2>12 DEF Exchanges, Message
<1>5. ASSUME NEW matched, CallEnds(matched)
      PROVE  Talk'
  BY <1>1, <1>5, CallRecords
<1>6. CASE StartFails \/ CreateRun \/ MarkRunning \/ LoopEnds \/ BudgetExhausted
             \/ CompleteFails \/ CompleteReport \/ Conclude \/ finalizeRun \/ Cleanup
             \/ ContextExpires \/ Crash \/ UNCHANGED vars
  BY <1>1, <1>2, <1>6
     DEF StartFails, CreateRun, MarkRunning, LoopEnds, BudgetExhausted, CompleteFails,
         CompleteReport, Conclude, finalizeRun, Cleanup, ContextExpires, Crash, vars
<1> QED
  BY <1>1, <1>3, <1>4, <1>5, <1>6, CallsEnd DEF Next, RunStep, CallStep, CooldownLapses

-----------------------------------------------------------------------------
(* The theorems.                                                           *)

\* The initial state satisfies the invariant.
LEMMA RunnerInvInit ==
    ASSUME Init
    PROVE  RunnerInv
<1> USE DEF Init
<1>1. TypeOK
  <2>1. messages \in Seq(MessageRec)
    BY DEF MessageRec
  <2>2. iterations \in 0..MaxIterations /\ used \in Nat
    BY Bounds
  <2>3. run \in [phase : Terminal \cup {"", "Running", None}, actions : Seq(ActionRecord)]
    BY EmptySeq DEF NoRun
  <2>4. /\ calls \in Seq(Calls) /\ actions \in Seq(ActionRecord)
        /\ ran \in Seq([call : Calls, matched : Entry \cup {None},
                        approved : BOOLEAN, ok : BOOLEAN, at : Nat])
    BY EmptySeq
  <2>5. summary \in [checks : Nat, blocked : Nat, escalations : Nat]
    OBVIOUS
  <2> QED
    BY <2>1, <2>2, <2>3, <2>4, <2>5 DEF TypeOK, Terminal
<1>2. ran = <<>> /\ DOMAIN ran = {} /\ actions = <<>> /\ DOMAIN actions = {} /\ Len(actions) = 0
      /\ summary.checks = 0
  OBVIOUS
<1>3. ExecutedWithinAuthority
  BY <1>2 DEF ExecutedWithinAuthority, RanEntries
<1>4. OvershootBounded
  BY LargestInput, Bounds DEF OvershootBounded
<1>5. Lists(actions)
  BY <1>2 DEF Lists
<1>6. run.phase \notin Terminal /\ recent \subseteq cooling
  BY RunnerConstants DEF NoRun, Terminal
<1>7. Exchanges(Len(messages))
  <2>1. Len(messages) = 1 /\ messages[1] = Message("user", 0)
    BY DEF Message
  <2>2. 1 <= 2 * KeepPairs + 1
    BY Bounds
  <2>3. 1 % 2 = 1 /\ 2..1 = {}
    OBVIOUS
  <2> QED
    BY <2>1, <2>2, <2>3 DEF Exchanges
<1>8. pc = "assemble"
  OBVIOUS
<1> HIDE DEF Init
<1> QED
  BY <1>1, <1>3, <1>4, <1>5, <1>6, <1>7, <1>8 DEF RunnerInv

\* RunnerInv is inductive: from any state that satisfies it, whatever the
\* language model asks for and whatever fails, a step of Execute leads to one
\* that satisfies it.
LEMMA RunnerInvStep ==
    ASSUME RunnerInv, [Next]_vars
    PROVE  RunnerInv'
<1>1. /\ TypeOK /\ ExecutedWithinAuthority /\ OvershootBounded /\ Lists(actions)
      /\ RunFinal /\ recent \subseteq cooling /\ Talk
  BY DEF RunnerInv, RunFinal, Talk
<1>2. TypeOK'
  BY <1>1, RunnerTypeStep
<1>3. ExecutedWithinAuthority' /\ OvershootBounded' /\ Lists(actions)'
  BY <1>1, AuthorityStep, OvershootStep, ListsStep
<1>4. RunFinal' /\ (recent \subseteq cooling)' /\ Talk'
  BY <1>1, RunFinalStep, CooldownStep, TalkStep
<1> QED
  BY <1>2, <1>3, <1>4 DEF RunnerInv, RunFinal, Talk

\* Every state of every run satisfies RunnerInv.
THEOREM RunnerInvariant == Spec => []RunnerInv
  BY RunnerInvInit, RunnerInvStep, PTL DEF Spec

\* No path leads around Engine.Evaluate, for any Action Sheet, guardrails and
\* tool calls: what a run executes is within the agent's authority.
THEOREM RunsStayWithinAuthority == Spec => []ExecutedWithinAuthority
<1>1. RunnerInv => ExecutedWithinAuthority
  BY DEF RunnerInv
<1> QED
  BY <1>1, RunnerInvariant, PTL

\* A LegatorRun in a terminal phase is the complete audit trail of its run,
\* however many calls the run made.
THEOREM AuditTrailComplete == Spec => []AuditComplete
<1>1. RunnerInv => AuditComplete
  BY DEF RunnerInv, AuditComplete
<1> QED
  BY <1>1, RunnerInvariant, PTL

\* For any budget, cap and sizes of input, a run exceeds its budget by no more
\* than the input of one request.
THEOREM BudgetOvershootBounded == Spec => []OvershootBounded
<1>1. RunnerInv => OvershootBounded
  BY DEF RunnerInv
<1> QED
  BY <1>1, RunnerInvariant, PTL

\* Every request keeps tool results with their responses, for any number of
\* iterations and any length the conversation is pruned to.
THEOREM RequestsWellFormed == Spec => []ToolResultsPaired
<1>1. ASSUME RunnerInv
      PROVE  ToolResultsPaired
  <2>1. SUFFICES ASSUME InLoop
                 PROVE  /\ messages[1] = Message("user", 0)
                        /\ Len(messages) <= 2 * KeepPairs + 1
                        /\ \A i \in DOMAIN messages :
                             messages[i].role = "results" =>
                               messages[i - 1] = Message("assistant", messages[i].of)
    BY DEF ToolResultsPaired
  <2>2. Exchanges(Len(messages)) /\ TypeOK
    BY <1>1, <2>1 DEF RunnerInv, InLoop
  <2>3. messages \in Seq(MessageRec) /\ Len(messages) \in Nat /\ DOMAIN messages = 1..Len(messages)
    <3>1. messages \in Seq(MessageRec)
      BY <2>2, Types
    <3> QED
      BY <3>1
  <2>4. ASSUME NEW i \in DOMAIN messages, messages[i].role = "results"
        PROVE  messages[i - 1] = Message("assistant", messages[i].of)
    <3>1. messages[1].role = "user"
      BY <2>2 DEF Exchanges, Message
    <3>2. i \in 2..Len(messages)
      BY <2>3, <2>4, <3>1
    <3>3. i % 2 # 0 /\ messages[i] = Message("results", messages[i - 1].of)
      BY <2>2, <2>4, <3>2 DEF Exchanges
    <3>4. i - 1 \in 2..Len(messages) /\ (i - 1) % 2 = 0
      BY <2>3, <3>2, <3>3
    <3>5. messages[i - 1].role = "assistant"
      BY <2>2, <3>4 DEF Exchanges
    <3>6. messages[i - 1] \in MessageRec
      BY <2>3, <3>4
    <3>7. messages[i].of = messages[i - 1].of
      BY <3>3 DEF Message
    <3> QED
      BY <3>5, <3>6, <3>7 DEF Message, MessageRec
  <2> QED
    BY <2>2, <2>4 DEF Exchanges
<1> QED
  BY <1>1, RunnerInvariant, PTL

\* An action is not executed again on a target within its cooldown.
THEOREM CooldownIsRespected == Spec => CooldownRespected
<1> DEFINE Respects ==
      (Len(ran') = Len(ran) + 1) =>
         LET e == ran'[Len(ran')] IN
         ~e.approved /\ e.matched # None /\ e.matched.cooldown
           => <<e.matched.id, e.call.target>> \notin recent
<1>1. ASSUME RunnerInv, [Next]_vars
      PROVE  [Respects]_vars
  <2>1. ran \in Seq(RanRec) /\ recent \subseteq cooling
    BY <1>1, Types DEF RunnerInv
  <2>2. CASE UNCHANGED ran
    <3>1. Len(ran) \in Nat
      BY <2>1
    <3>2. Len(ran') # Len(ran) + 1
      BY <2>2, <3>1
    <3> QED
      BY <3>2
  <2>3. ASSUME NEW matched, NEW ok \in BOOLEAN, NEW approved \in BOOLEAN,
               ran' = Append(ran, RanEntry(matched, approved, ok)),
               ~approved => Decision(matched).allowed
        PROVE  Respects
    <3> DEFINE e == RanEntry(matched, approved, ok)
    <3>1. ran'[Len(ran')] = e
      BY <2>1, <2>3
    <3>2. e.matched = matched /\ e.approved = approved /\ e.call = Head(calls)
      BY DEF RanEntry
    <3> HIDE DEF e
    <3>3. ~approved /\ matched # None =>
            ~checkCooldown(Head(calls), matched, cooling)
      BY <2>3, AllowedPasses DEF Decision
    <3> QED
      BY <2>1, <3>1, <3>2, <3>3 DEF checkCooldown
  <2> QED
    BY <1>1, <2>2, <2>3, StepKinds, CallRecords DEF CooldownLapses
<1> QED
  BY <1>1, RunnerInvariant, PTL DEF Spec, CooldownRespected

=============================================================================
