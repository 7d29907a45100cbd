------------------------------- MODULE Quotas -------------------------------
(***************************************************************************)
(* The quota enforcer of a team.                                           *)
(*                                                                         *)
(*   src/internal/tenant/tenant.go   QuotaEnforcer                         *)
(*                                                                         *)
(* Runs of a team start and end concurrently. Each checks its quota and    *)
(* then records itself, in two critical sections; in between and at any    *)
(* time the team may be registered anew and the periodic counters reset.   *)
(* The manager does not construct a QuotaEnforcer yet.                     *)
(***************************************************************************)
EXTENDS Integers, FiniteSets

CONSTANTS
    TeamRuns,                  \* the runs of the team
    MaxConcurrentRuns, MaxRunsPerDay, MaxTokenBudget,   \* quotas; 0 is none
    RunTokens                  \* what a run uses

ASSUME QuotaConstants ==
    /\ {MaxConcurrentRuns, MaxTokenBudget} \subseteq Nat
    /\ MaxRunsPerDay \in Nat \ {0}   \* keeps the daily count finite here
    /\ RunTokens \in Nat
    /\ IsFiniteSet(TeamRuns)

VARIABLES
    usage,      \* Team.Usage
    teamRun,    \* where each run is
    renewed     \* whether RegisterTeam replaced the team while runs existed

quotaVars == <<usage, teamRun, renewed>>

TokenBound == RunTokens * (Cardinality(TeamRuns) + 1)   \* bound of the counters

NoUsage == [concurrent |-> 0, today |-> 0, tokens |-> 0]

QuotaTypeOK ==
    /\ usage \in [concurrent : 0 .. Cardinality(TeamRuns),
                  today : 0 .. MaxRunsPerDay + Cardinality(TeamRuns), tokens : 0 .. TokenBound]
    /\ teamRun \in [TeamRuns -> {"idle", "checked", "running"}]
    /\ renewed \in BOOLEAN

QuotaInit ==
    /\ usage = NoUsage
    /\ teamRun = [r \in TeamRuns |-> "idle"]
    /\ renewed = FALSE

Exceeds(used, quota) == quota > 0 /\ used >= quota

\* Mutant: the concurrent runs are not looked at.
CheckPeriodicOnly(r) ==
    /\ teamRun[r] = "idle"
    /\ ~Exceeds(usage.today, MaxRunsPerDay) /\ ~Exceeds(usage.tokens, MaxTokenBudget)
    /\ teamRun' = [teamRun EXCEPT ![r] = "checked"]
    /\ UNCHANGED <<usage, renewed>>

CheckCanStartRun(r) ==
    /\ teamRun[r] = "idle"
    /\ ~Exceeds(usage.concurrent, MaxConcurrentRuns)
    /\ ~Exceeds(usage.today, MaxRunsPerDay)
    /\ ~Exceeds(usage.tokens, MaxTokenBudget)
    /\ teamRun' = [teamRun EXCEPT ![r] = "checked"]
    /\ UNCHANGED <<usage, renewed>>

RecordRunStart(r) ==
    /\ teamRun[r] = "checked"
    /\ usage' = [usage EXCEPT !.concurrent = @ + 1, !.today = @ + 1]
    /\ teamRun' = [teamRun EXCEPT ![r] = "running"]
    /\ UNCHANGED renewed

RecordRunEnd(r, tokens) ==
    /\ teamRun[r] = "running"
    /\ usage.tokens + tokens <= TokenBound
    /\ usage' = [usage EXCEPT !.concurrent = IF @ > 0 THEN @ - 1 ELSE 0,
                              !.tokens = @ + tokens]
    /\ teamRun' = [teamRun EXCEPT ![r] = "idle"]
    /\ UNCHANGED renewed

\* RegisterTeam stores the Team it is given, with an empty Usage.
RegisterTeam ==
    /\ usage' = NoUsage
    /\ renewed' = (renewed \/ \E r \in TeamRuns : teamRun[r] = "running")
    /\ UNCHANGED teamRun

ResetHourlyUsage ==
    /\ usage' = [usage EXCEPT !.tokens = 0] /\ UNCHANGED <<teamRun, renewed>>

ResetDailyUsage ==
    /\ usage' = [usage EXCEPT !.today = 0] /\ UNCHANGED <<teamRun, renewed>>

QuotaNext ==
    \/ \E r \in TeamRuns : CheckCanStartRun(r)
    \/ \E r \in TeamRuns : RecordRunStart(r)
    \/ \E r \in TeamRuns, tokens \in {0, RunTokens} : RecordRunEnd(r, tokens)
    \/ RegisterTeam
    \/ ResetHourlyUsage
    \/ ResetDailyUsage

QuotaSpec == QuotaInit /\ [][QuotaNext]_quotaVars

-----------------------------------------------------------------------------
Checked == {r \in TeamRuns : teamRun[r] = "checked"}
Running == {r \in TeamRuns : teamRun[r] = "running"}

(* The counters tell the truth about the runs: the concurrent count never  *)
(* exceeds the runs that are really going, and is exact until a team is    *)
(* registered anew over live runs; the daily count exceeds its quota by no *)
(* more than the runs that had passed their check when it was reached.     *)
QuotaInv ==
    /\ QuotaTypeOK
    /\ usage.concurrent <= Cardinality(Running)
    /\ ~renewed => usage.concurrent = Cardinality(Running)
    /\ usage.today + Cardinality(Checked) <= MaxRunsPerDay + Cardinality(TeamRuns)

(* Unless the team was registered anew over live runs, a run passes its    *)
(* check only while fewer than MaxConcurrentRuns runs are really going.    *)
(* (Several may pass before the first records itself, so the quota can     *)
(* still be exceeded by the runs that are between check and record.)       *)
AdmittedBelowQuota ==
    [][\A r \in TeamRuns :
         ~renewed /\ MaxConcurrentRuns > 0 /\ teamRun[r] = "idle" /\ teamRun'[r] = "checked"
           => Cardinality(Running) < MaxConcurrentRuns]_quotaVars

=============================================================================
