------------------------------- MODULE RunWait -------------------------------
(***************************************************************************)
(* legator run --wait: trigger a run of an agent and wait for it.          *)
(*                                                                         *)
(*   src/cmd/legator/run.go   handleRunAgent, handleRunAgentViaAPI         *)
(*                                                                         *)
(* The command knows the run it waits for only by when it was created. The *)
(* API server keeps creation times in whole seconds; the command compares  *)
(* them with its own clock. Time is counted in half seconds, up to a       *)
(* horizon, and both clocks agree. Runs that nobody asked for (scheduled   *)
(* ones) are created at any time.                                          *)
(***************************************************************************)
EXTENDS Integers, FiniteSets

CONSTANTS
    WaitRuns,     \* the runs of the agent that may appear
    Horizon,      \* bound on the clock, in half seconds
    MaxPolls      \* 60 in the code

ASSUME WaitConstants == Horizon \in Nat /\ MaxPolls \in Nat \ {0}

VARIABLES
    clock,        \* in half seconds
    waiter,       \* the command
    agentRuns     \* the agent's runs: when each was really created, and its phase

waitVars == <<clock, waiter, agentRuns>>

WaitPhases == {"none", "Pending", "Running", "Succeeded", "Failed", "Escalated", "Blocked"}
Never == -1
Instants == Never .. Horizon
PollCounts == 0 .. MaxPolls

AgentRunRec == [created : Instants, phase : WaitPhases]
WaiterRec == [pc : {"start", "triggered", "polling", "exit0", "exit1"},
              mode : {"kube", "api"},
              written : Instants,       \* when the annotation was written
              triggerTime : Instants,   \* when the command read its clock
              polls : PollCounts,
              reported : SUBSET WaitRuns]

WaitTypeOK ==
    /\ clock \in 0 .. Horizon
    /\ waiter \in WaiterRec
    /\ agentRuns \in [WaitRuns -> AgentRunRec]

WaitInit ==
    /\ clock = 0
    /\ waiter = [pc |-> "start", mode |-> "kube", written |-> Never, triggerTime |-> Never,
                 polls |-> 0, reported |-> {}]
    /\ agentRuns = [r \in WaitRuns |-> [created |-> Never, phase |-> "none"]]

\* metav1.Time: whole seconds.
WholeSecond(t) == t - (t % 2)
CreationTimestamp(r) == WholeSecond(agentRuns[r].created)

-----------------------------------------------------------------------------
\* The annotation is written, directly or by the API server.
TriggerRun(mode) ==
    /\ waiter.pc = "start"
    /\ waiter' = [waiter EXCEPT !.pc = "triggered", !.mode = mode, !.written = clock]
    /\ UNCHANGED <<clock, agentRuns>>

\* triggerTime := time.Now(), after the write has returned.
NoteTriggerTime ==
    /\ waiter.pc = "triggered"
    /\ waiter' = [waiter EXCEPT !.pc = "polling", !.triggerTime = clock]
    /\ UNCHANGED <<clock, agentRuns>>

\* Mutant: a run of the same second counts as new.
IsNewInSecond(r) ==
    IF waiter.mode = "kube" THEN CreationTimestamp(r) >= WholeSecond(waiter.triggerTime)
    ELSE CreationTimestamp(r) >= waiter.triggerTime - 4

\* ct.After(triggerTime); through the API, not Before(triggerTime - 2s).
IsNew(r) ==
    IF waiter.mode = "kube" THEN CreationTimestamp(r) > waiter.triggerTime
    ELSE CreationTimestamp(r) >= waiter.triggerTime - 4

\* One round of the loop, or the end of it. Of the new runs that have succeeded
\* or failed the first one listed is reported; runs in any other phase, Escalated
\* and Blocked among them, keep it waiting. A list that fails is skipped.
PollRuns ==
    /\ waiter.pc = "polling"
    /\ \/ \E r \in WaitRuns :
            /\ waiter.polls < MaxPolls
            /\ agentRuns[r].phase \in {"Succeeded", "Failed"} /\ IsNew(r)
            /\ waiter' = [waiter EXCEPT !.reported = {r},
                   !.pc = IF agentRuns[r].phase = "Succeeded" THEN "exit0" ELSE "exit1"]
       \/ /\ waiter.polls < MaxPolls    \* nothing to report, or the list failed
          /\ waiter' = [waiter EXCEPT !.polls = @ + 1]
       \/ /\ waiter.polls = MaxPolls
          /\ waiter' = [waiter EXCEPT !.pc = "exit1"]
    /\ UNCHANGED <<clock, agentRuns>>

-----------------------------------------------------------------------------
(* External: the operator's runs, and time.                                *)

RunAppears(r) ==
    /\ agentRuns[r].phase = "none"
    /\ agentRuns' = [agentRuns EXCEPT ![r] = [created |-> clock, phase |-> "Pending"]]
    /\ UNCHANGED <<clock, waiter>>

RunMoves(r, phase) ==
    /\ \/ agentRuns[r].phase = "Pending" /\ phase = "Running"
       \/ agentRuns[r].phase = "Running" /\ phase \in WaitPhases \ {"none", "Pending", "Running"}
    /\ agentRuns' = [agentRuns EXCEPT ![r].phase = phase]
    /\ UNCHANGED <<clock, waiter>>

WaitTick ==
    /\ clock < Horizon /\ clock' = clock + 1
    /\ UNCHANGED <<waiter, agentRuns>>

WaitNext ==
    \/ \E mode \in {"kube", "api"} : TriggerRun(mode)
    \/ NoteTriggerTime
    \/ PollRuns
    \/ \E r \in WaitRuns : RunAppears(r)
    \/ \E r \in WaitRuns, phase \in WaitPhases : RunMoves(r, phase)
    \/ WaitTick

WaitSpec == WaitInit /\ [][WaitNext]_waitVars

-----------------------------------------------------------------------------
(* Against the Kubernetes API, the run that legator run --wait reports was *)
(* created after the annotation was written: it never reports the outcome  *)
(* of a run that was already there, however coarse the creation times are  *)
(* and however late the command read its clock. Through the API server the *)
(* two seconds of tolerance give that up, by two seconds and no more. And  *)
(* the exit code is that run's outcome.                                    *)
ReportsALaterRun ==
    \A r \in waiter.reported :
        /\ agentRuns[r].created >= waiter.written - (IF waiter.mode = "kube" THEN 0 ELSE 4)
        /\ (waiter.pc = "exit0") = (agentRuns[r].phase = "Succeeded")

(* What makes it so: the command reads its clock after the write, polls    *)
(* only with a trigger time that it has read, and reports one run, which   *)
(* has ended and therefore moves no more.                                  *)
WaitInv ==
    /\ WaitTypeOK
    /\ waiter.written <= clock
    /\ waiter.pc \in {"polling", "exit0", "exit1"} => waiter.written <= waiter.triggerTime
    /\ waiter.pc \in {"start", "triggered", "polling"} => waiter.reported = {}
    /\ \A r \in waiter.reported : agentRuns[r].phase \in {"Succeeded", "Failed"}
    /\ ReportsALaterRun

=============================================================================
