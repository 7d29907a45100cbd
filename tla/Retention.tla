------------------------------ MODULE Retention -----------------------------
(***************************************************************************)
(* The LegatorRun objects and the controller that deletes old ones.        *)
(*                                                                         *)
(*   src/internal/retention/retention.go   Start, doScan, isTerminal       *)
(*                                                                         *)
(* Runs are numbered in the order of their creation. A run is Running      *)
(* until its runner writes a final phase (module Runner) or dies, and then *)
(* stays Running. The controller lists the runs from its cache, picks what *)
(* to delete and deletes one after the other, while runs are created and   *)
(* finish.                                                                 *)
(***************************************************************************)
EXTENDS Integers, FiniteSets

CONSTANTS
    RunAgents,
    MaxRuns,               \* bound: runs ever created
    PreserveMinPerAgent, MaxDeleteBatch

ASSUME RetentionConstants ==
    /\ MaxRuns \in Nat
    /\ PreserveMinPerAgent \in Nat
    /\ MaxDeleteBatch \in Nat \ {0}
    /\ RunAgents # {}

StoredRuns == 1 .. MaxRuns

VARIABLES
    runObjects, \* the LegatorRuns in the API server
    runCache,   \* their phases in the manager's cache
    toDelete    \* doScan: what is left to delete; {} between scans

retentionVars == <<runObjects, runCache, toDelete>>

RunPhases == {"none", "Running", "finished", "deleted"}

\* "finished" stands for the four terminal phases. old: the completion is
\* longer ago than the TTL. dead: the runner will not finish the run.
RunRec == [agent : RunAgents, phase : RunPhases, old : BOOLEAN, dead : BOOLEAN]

RetentionTypeOK ==
    /\ runObjects \in [StoredRuns -> RunRec]
    /\ runCache \in [StoredRuns -> RunPhases]
    /\ toDelete \subseteq StoredRuns

RetentionInit ==
    /\ runObjects = [r \in StoredRuns |-> [agent |-> CHOOSE a \in RunAgents : TRUE,
                                 phase |-> "none", old |-> FALSE, dead |-> FALSE]]
    /\ runCache = [r \in StoredRuns |-> "none"]
    /\ toDelete = {}

-----------------------------------------------------------------------------
(* The runners and the cache.                                              *)

CreateRun(r, a) ==
    /\ runObjects[r].phase = "none"
    /\ r > 1 => runObjects[r - 1].phase # "none"
    /\ runObjects' = [runObjects EXCEPT ![r].phase = "Running", ![r].agent = a]
    /\ UNCHANGED <<runCache, toDelete>>

FinishRun(r) ==
    /\ runObjects[r].phase = "Running" /\ ~runObjects[r].dead
    /\ runObjects' = [runObjects EXCEPT ![r].phase = "finished"]
    /\ UNCHANGED <<runCache, toDelete>>

RunnerDies(r) ==
    /\ runObjects[r].phase = "Running" /\ ~runObjects[r].dead
    /\ runObjects' = [runObjects EXCEPT ![r].dead = TRUE]
    /\ UNCHANGED <<runCache, toDelete>>

\* Time: the completion of r gets older than the TTL.
TtlPasses(r) ==
    /\ runObjects[r].phase = "finished" /\ ~runObjects[r].old
    /\ runObjects' = [runObjects EXCEPT ![r].old = TRUE]
    /\ UNCHANGED <<runCache, toDelete>>

RunCacheSync(r) ==
    /\ runCache[r] # runObjects[r].phase
    /\ runCache' = [runCache EXCEPT ![r] = runObjects[r].phase]
    /\ UNCHANGED <<runObjects, toDelete>>

-----------------------------------------------------------------------------
(* doScan.                                                                 *)

\* The listed runs of r's agent that are newer than r: its index in the
\* sorted list.
Listed == {r \in StoredRuns : runCache[r] \in {"Running", "finished"}}

Index(r) == Cardinality({q \in Listed : q > r /\ runObjects[q].agent = runObjects[r].agent})

IsTerminal(r) == runCache[r] = "finished"

\* Mutant: no run is preserved.
EligibleByAge == {r \in Listed : IsTerminal(r) /\ runObjects[r].old}

\* The runs to delete: finished, beyond the first PreserveMinPerAgent of
\* their agent, which count runs in any phase, and past their TTL.
Eligible == {r \in Listed : /\ IsTerminal(r)
                            /\ Index(r) >= PreserveMinPerAgent
                            /\ runObjects[r].old}

\* The batch is cut from a list with the agents in the order of a Go map,
\* the runs of an agent newest first.
CutOff(S, a) == LET all == {r \in Eligible : runObjects[r].agent = a} IN
                S \cap all \notin {{}, all}

Batches ==
    {S \in SUBSET Eligible :
        /\ S = Eligible \/ Cardinality(S) = MaxDeleteBatch
        /\ Cardinality(S) <= MaxDeleteBatch
        /\ \A r \in S : {q \in Eligible : q > r /\ runObjects[q].agent = runObjects[r].agent} \subseteq S
        /\ \A a, b \in RunAgents : CutOff(S, a) /\ CutOff(S, b) => a = b}

\* Mutant: a scan that has more to delete than a batch deletes nothing.
ScanSmall ==
    /\ toDelete = {}
    /\ Eligible # {}
    /\ Cardinality(Eligible) <= MaxDeleteBatch
    /\ toDelete' \in Batches
    /\ UNCHANGED <<runObjects, runCache>>

Scan ==
    /\ toDelete = {}
    /\ Eligible # {}
    /\ toDelete' \in Batches
    /\ UNCHANGED <<runObjects, runCache>>

\* A deletion; a run that is gone already is one more error.
DeleteNext ==
    \E r \in toDelete :
        /\ runObjects' = [runObjects EXCEPT ![r].phase = "deleted"]
        /\ toDelete' = toDelete \ {r}
        /\ UNCHANGED runCache

\* A deletion fails; it is counted, and the next scan tries again.
DeleteFails ==
    \E r \in toDelete :
        /\ toDelete' = toDelete \ {r}
        /\ UNCHANGED <<runObjects, runCache>>

\* The process ends during a scan.
ScanAborted ==
    /\ toDelete # {}
    /\ toDelete' = {}
    /\ UNCHANGED <<runObjects, runCache>>

RetentionNext ==
    \/ \E r \in StoredRuns : \/ \E a \in RunAgents : CreateRun(r, a)
                         \/ FinishRun(r) \/ RunnerDies(r) \/ TtlPasses(r)
                         \/ RunCacheSync(r)
    \/ Scan \/ DeleteNext \/ DeleteFails \/ ScanAborted

RetentionSpec == RetentionInit /\ [][RetentionNext]_retentionVars

-----------------------------------------------------------------------------
(* Properties.                                                             *)

RunsOf(a) == {r \in StoredRuns : runObjects[r].agent = a /\ runObjects[r].phase \in {"Running", "finished"}}

\* The runs of r's agent that are newer, still there and not among picked.
Followers(objects, r, picked) ==
    {q \in StoredRuns : /\ q > r /\ q \notin picked
                        /\ objects[q].agent = objects[r].agent
                        /\ objects[q].phase \in {"Running", "finished"}}

\* Why enough runs stay: behind every run that is deleted, or picked to be,
\* its agent has PreserveMinPerAgent newer runs that are neither. The cache
\* may still list runs that are gone, and it never shows a phase too early.
RetentionInv ==
    /\ RetentionTypeOK
    /\ \A r \in StoredRuns :
         LET phase == runObjects[r].phase IN
         /\ runCache[r] # "none" => phase # "none"
         /\ runCache[r] = "finished" => phase \in {"finished", "deleted"}
         /\ r \in toDelete => phase \in {"finished", "deleted"} /\ runObjects[r].old
         /\ r \in toDelete \/ phase = "deleted" =>
              Cardinality(Followers(runObjects, r, toDelete)) >= PreserveMinPerAgent

\* A deletion leaves the agent PreserveMinPerAgent runs and never takes one
\* that is executing, although the list it follows is old, was cut to a
\* batch and runs were created, finished and deleted since.
PreservesNewest ==
    [][\A r \in StoredRuns :
         (runObjects'[r].phase = "deleted" /\ runObjects[r].phase # "deleted") =>
             /\ runObjects[r].phase = "finished" /\ runObjects[r].old
             /\ Cardinality({q \in RunsOf(runObjects[r].agent) : q > r})
                    >= PreserveMinPerAgent]_retentionVars

\* A finished run past its TTL that enough newer runs follow is deleted in
\* the end, although a scan deletes a limited batch, deletions fail from
\* time to time and runners that died leave runs that stay for ever.
OldRunsDeleted ==
    \A r \in StoredRuns :
        (/\ runObjects[r].phase = "finished" /\ runObjects[r].old
         /\ Cardinality({q \in RunsOf(runObjects[r].agent) : q > r}) >= PreserveMinPerAgent)
        ~> runObjects[r].phase = "deleted"

=============================================================================
