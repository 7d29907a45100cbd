-------------------------------- MODULE Views --------------------------------
(***************************************************************************)
(* What the API, the command line and the dashboard show of the runs: the  *)
(* same store through six filters, sorts, limits and counts, each written  *)
(* separately.                                                             *)
(*                                                                         *)
(*   src/internal/api/server.go         handleListRuns, handleAuditTrail   *)
(*   src/internal/dashboard/server.go   listRuns, buildOverviewData, ...   *)
(*   src/cmd/legator/main.go            runsList, handleStatus, ...        *)
(*                                                                         *)
(* The store is a sequence in order of creation; runs created within one   *)
(* second, whose order an unstable sort leaves open, are kept apart by a   *)
(* tick. The views are operators; the store changes as the operator and    *)
(* the retention manager change it. Rates are kept as fractions.           *)
(***************************************************************************)
EXTENDS Integers, Sequences, FiniteSets, Filters

CONSTANTS
    ViewAgents,     \* the agents that have runs
    AnyAgent,       \* no filter
    ApiLimit,       \* 50 in handleListRuns
    CliLimit,       \* 25 in runsList and runsListViaAPI
    OverviewLimit,  \* 100 in buildOverviewData
    MaxStored       \* bound on the runs in the store

ASSUME ViewConstants ==
    {ApiLimit, CliLimit, OverviewLimit, MaxStored} \subseteq Nat \ {0}

VARIABLE stored     \* the LegatorRuns, oldest first

viewVars == stored

ViewPhases == {"Pending", "Running", "Succeeded", "Failed", "Escalated", "Blocked"}

ViewRun == [id : 1 .. MaxStored, agent : ViewAgents, phase : ViewPhases]

ViewTypeOK == stored \in Seq(ViewRun)

ViewInit == stored = <<>>

CreateViewRun(a) ==
    \E id \in 1 .. MaxStored :
        /\ \A i \in DOMAIN stored : stored[i].id # id
        /\ stored' = Append(stored, [id |-> id, agent |-> a, phase |-> "Pending"])

FinishViewRun(i, phase) ==
    /\ stored[i].phase \in {"Pending", "Running"} /\ phase # stored[i].phase
    /\ phase # "Pending"
    /\ stored' = [stored EXCEPT ![i].phase = phase]

DeleteViewRun(i) ==
    /\ stored[i].phase \notin {"Pending", "Running"}
    /\ stored' = Kept(stored, DOMAIN stored \ {i})

ViewNext ==
    \/ \E a \in ViewAgents : CreateViewRun(a)
    \/ \E i \in DOMAIN stored, phase \in ViewPhases : FinishViewRun(i, phase)
    \/ \E i \in DOMAIN stored : DeleteViewRun(i)

ViewSpec == ViewInit /\ [][ViewNext]_viewVars

-----------------------------------------------------------------------------
(* Lists.                                                                  *)

Newest(runs) == [i \in DOMAIN runs |-> runs[Len(runs) + 1 - i]]
OfAgent(runs, a) == Kept(runs, {i \in DOMAIN runs : a \in {AnyAgent, runs[i].agent}})
First(runs, n) == SubSeq(runs, 1, IF Len(runs) < n THEN Len(runs) ELSE n)

\* The filter is a label selector of the List call; sort, then the limit.
handleListRuns(a) == First(Newest(OfAgent(stored, a)), ApiLimit)

\* The same without the limit; "since" filters by age, which keeps a suffix of
\* the store.
handleAuditTrail(a, since) ==
    Newest(OfAgent(SubSeq(stored, since + 1, Len(stored)), a))

\* Mutant: the limit before the filter.
listRunsLimited(a, limit) == OfAgent(First(Newest(stored), limit), a)

\* The dashboard's pages and tables: limits 10, 20, 50 and 100.
listRuns(a, limit) == First(Newest(OfAgent(stored, a)), limit)

\* runsList filters in the loop that prints, and counts what it prints.
runsList(a) ==
    LET sorted == Newest(stored)
        Printed(i) == Cardinality({j \in 1 .. i : a \in {AnyAgent, sorted[j].agent}})
        last == {i \in DOMAIN sorted : Printed(i) = CliLimit}
        end == IF last = {} THEN Len(sorted) ELSE CHOOSE i \in last : \A j \in last : i <= j
    IN OfAgent(SubSeq(sorted, 1, end), a)

runsListViaAPI(a) == First(handleListRuns(a), CliLimit)

-----------------------------------------------------------------------------
(* Counts.                                                                 *)

InPhases(runs, phases) == Cardinality({i \in DOMAIN runs : runs[i].phase \in phases})

\* handleStatus and handleStatusViaAPI: the rate is over succeeded and failed.
StatusCounts(runs) ==
    [total |-> Len(runs), succeeded |-> InPhases(runs, {"Succeeded"}),
     completed |-> InPhases(runs, {"Succeeded", "Failed"})]

handleStatus == StatusCounts(stored)
handleStatusViaAPI == StatusCounts(handleListRuns(AnyAgent))

\* buildOverviewData: the rate is over every run shown, the running ones included.
buildOverviewData ==
    LET allRuns == listRuns(AnyAgent, OverviewLimit)
    IN [total |-> Len(allRuns), succeeded |-> InPhases(allRuns, {"Succeeded"}),
        completed |-> Len(allRuns)]

-----------------------------------------------------------------------------
Prefix(v, w) == Len(v) <= Len(w) /\ \A i \in DOMAIN v : v[i] = w[i]

(* Whatever the store holds and whatever was deleted from it, the views    *)
(* agree: of any two lists of one agent's runs one is a prefix of the      *)
(* other, and none is empty, or misses the newest run, when the agent has  *)
(* one, however many newer runs the other agents have.                     *)
ViewsAgree ==
    \A a \in ViewAgents \cup {AnyAgent} :
        LET views == {handleListRuns(a), handleAuditTrail(a, 0), runsList(a),
                      runsListViaAPI(a), listRuns(a, 1), listRuns(a, 2)}
        IN /\ \A v, w \in views : Prefix(v, w) \/ Prefix(w, v)
           /\ OfAgent(stored, a) # <<>> => <<>> \notin views

\* What the runs in the store are, and that the lists of them agree.
ViewInv == ViewTypeOK /\ ViewsAgree

(* The API, the dashboard and the command line tell the same of the runs:  *)
(* their lists agree in every store that changes, and the success rate     *)
(* of the command line is the share of succeeded runs among those that     *)
(* succeeded or failed: an escalated or blocked run does not lower it, so  *)
(* it changes only when a run succeeds, fails or is deleted. And the       *)
(* dashboard's rate, over all its runs, is never above it while no limit   *)
(* cuts a list short.                                                      *)
ViewsTellTheSame ==
    [][stored' # stored =>
         LET before == handleStatus
             after == handleStatus'
         IN /\ ViewsAgree
            /\ (before.succeeded * after.completed # after.succeeded * before.completed
                  => InPhases(stored, {"Succeeded", "Failed"})
                       # InPhases(stored', {"Succeeded", "Failed"}))
            /\ (Len(stored) <= OverviewLimit
                  => buildOverviewData.succeeded * before.completed
                       <= before.succeeded * buildOverviewData.completed)]_viewVars

=============================================================================
