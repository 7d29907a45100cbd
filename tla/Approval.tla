------------------------------ MODULE Approval ------------------------------
(***************************************************************************)
(* One ApprovalRequest: the run that creates it and polls for a decision,  *)
(* and everyone who can decide it.                                         *)
(*                                                                         *)
(*   src/internal/approval/approval.go    RequestApproval, expireRequest   *)
(*   src/internal/api/server.go           handleDecideApproval             *)
(*   src/internal/dashboard/server.go     handleApprovalAction             *)
(*   src/cmd/legator/main.go              handleApprovalDecision           *)
(*                                                                         *)
(* The run, the API server and the dashboard read through the manager's    *)
(* cache, the command line reads the API server itself. A write from a     *)
(* copy that is no longer current is refused.                              *)
(***************************************************************************)
CONSTANTS
    HttpDeciders,   \* HTTP requests to the API server or the dashboard
    Clis,           \* invocations of legator approve and legator deny
    CreatedPhases,  \* the phase an API server may store on Create
    Faults,         \* whether API calls fail and the cache lags
    NoPhase

ASSUME ApprovalConstants ==
    /\ HttpDeciders \cap Clis = {}
    /\ CreatedPhases \subseteq {"", "Pending"}
    /\ Faults \in BOOLEAN
    /\ NoPhase \notin {"", "Pending", "Approved", "Denied", "Expired"}

VARIABLES
    request,    \* the phase stored in the API server; NoPhase: not created
    cached,     \* the manager's copy; phase NoPhase: not in the cache yet
    poller,     \* RequestApproval: where it is, and is its copy current
    result,     \* what RequestApproval returned; NoPhase: not yet
    ctxDone,    \* the run's context has expired
    late,       \* the approval timeout has passed
    deciders,   \* the requests of the deciders in progress
    decided     \* history variable: every decision ever stored

approvalVars == <<request, cached, poller, result, ctxDone, late, deciders, decided>>

Deciders == HttpDeciders \cup Clis
Decision == {"Approved", "Denied"}
Undecided == {"", "Pending"}
ApprovalPhase == Undecided \cup Decision \cup {"Expired"}
NoDecider == [decision |-> NoPhase, current |-> FALSE]

ApprovalTypeOK ==
    /\ request \in ApprovalPhase \cup {NoPhase}
    /\ cached \in [phase : ApprovalPhase \cup {NoPhase}, current : BOOLEAN]
    /\ poller \in [pc : {"create", "poll", "expireGet", "expireUpdate", "returned"},
                   current : BOOLEAN]
    /\ result \in Decision \cup {"Expired", "error", NoPhase}
    /\ ctxDone \in BOOLEAN /\ late \in BOOLEAN
    /\ deciders \in [Deciders -> [decision : Decision \cup {NoPhase},
                                  current : BOOLEAN]]
    /\ decided \subseteq Decision

ApprovalInit ==
    /\ request = NoPhase
    /\ cached = [phase |-> NoPhase, current |-> FALSE]
    /\ poller = [pc |-> "create", current |-> FALSE]
    /\ result = NoPhase
    /\ ctxDone = FALSE /\ late = FALSE
    /\ deciders = [d \in Deciders |-> NoDecider]
    /\ decided = {}

-----------------------------------------------------------------------------
(* The API server and the cache (external).                                *)

\* A stored write makes every copy, the cached one included, outdated.
Cached(phase) ==
    cached' = IF Faults THEN [cached EXCEPT !.current = FALSE]
                        ELSE [phase |-> phase, current |-> TRUE]

OutdatedDeciders == [d \in Deciders |-> [deciders[d] EXCEPT !.current = FALSE]]

ApprovalCacheSync ==
    /\ request # NoPhase
    /\ cached' = [phase |-> request, current |-> TRUE]
    /\ UNCHANGED <<request, poller, result, ctxDone, late, deciders, decided>>

-----------------------------------------------------------------------------
(* RequestApproval.                                                        *)

PollerAt(pc) == poller' = [pc |-> pc, current |-> FALSE]

PollerReturns(res) == PollerAt("returned") /\ result' = res

\* The phase set in the object is part of the status, which a CRD with a
\* status subresource does not take from a Create.
CreateRequest ==
    /\ poller.pc = "create"
    /\ \E phase \in CreatedPhases : request' = phase /\ Cached(phase)
    /\ PollerAt("poll")
    /\ UNCHANGED <<result, ctxDone, late, deciders, decided>>

CreateFails ==
    /\ poller.pc = "create"
    /\ Faults \/ ctxDone
    /\ PollerReturns("error")
    /\ UNCHANGED <<request, cached, ctxDone, late, deciders, decided>>

\* Mutant: the run's context is not looked at.
GiveUpAtDeadline ==
    /\ poller.pc = "poll"
    /\ late
    /\ PollerAt("expireGet")
    /\ UNCHANGED <<request, cached, result, ctxDone, late, deciders, decided>>

\* ctx.Done(), or the ticker after the deadline: expireRequest is called.
GiveUp ==
    /\ poller.pc = "poll"
    /\ ctxDone \/ late
    /\ PollerAt("expireGet")
    /\ UNCHANGED <<request, cached, result, ctxDone, late, deciders, decided>>

\* Mutant: any phase is taken for a decision.
PollAnyPhase ==
    /\ poller.pc = "poll"
    /\ ~late
    /\ cached.phase # NoPhase
    /\ PollerReturns(cached.phase)
    /\ UNCHANGED <<request, cached, ctxDone, late, deciders, decided>>

\* The ticker before the deadline: Get finds a decision. Anything else (an
\* error, no object in the cache yet, an undecided phase) goes on polling.
Poll ==
    /\ poller.pc = "poll"
    /\ ~late
    /\ cached.phase \in Decision \cup {"Expired"}
    /\ PollerReturns(cached.phase)
    /\ UNCHANGED <<request, cached, ctxDone, late, deciders, decided>>

\* Mutant: a request that is not pending any more is taken for approved.
ExpireSkipApproving ==
    /\ poller.pc = "expireGet"
    /\ cached.phase # "Pending"
    /\ PollerReturns("Approved")
    /\ UNCHANGED <<request, cached, ctxDone, late, deciders, decided>>

\* expireRequest: the Get fails, or the phase is not Pending.
ExpireSkip ==
    /\ poller.pc = "expireGet"
    /\ Faults \/ cached.phase # "Pending"
    /\ PollerReturns("Expired")
    /\ UNCHANGED <<request, cached, ctxDone, late, deciders, decided>>

ExpireGet ==
    /\ poller.pc = "expireGet"
    /\ cached.phase = "Pending"
    /\ poller' = [pc |-> "expireUpdate", current |-> cached.current]
    /\ UNCHANGED <<request, cached, result, ctxDone, late, deciders, decided>>

\* Mutant: the expiry is written whatever version was read.
ExpireUpdateForced ==
    /\ poller.pc = "expireUpdate"
    /\ request' = "Expired"
    /\ Cached("Expired")
    /\ deciders' = OutdatedDeciders
    /\ PollerReturns("Expired")
    /\ UNCHANGED <<ctxDone, late, decided>>

ExpireUpdate ==
    /\ poller.pc = "expireUpdate"
    /\ poller.current
    /\ request' = "Expired"
    /\ Cached("Expired")
    /\ deciders' = OutdatedDeciders
    /\ PollerReturns("Expired")
    /\ UNCHANGED <<ctxDone, late, decided>>

\* The update is refused or fails: logged, and the result is the same.
ExpireUpdateFails ==
    /\ poller.pc = "expireUpdate"
    /\ Faults \/ ~poller.current
    /\ PollerReturns("Expired")
    /\ UNCHANGED <<request, cached, ctxDone, late, deciders, decided>>

-----------------------------------------------------------------------------
(* The deciders.                                                           *)

\* handleDecideApproval and updateApproval: the phase is not looked at.
HandlerGet(h, decision) ==
    /\ deciders[h] = NoDecider
    /\ cached.phase # NoPhase
    /\ deciders' = [deciders EXCEPT ![h] =
                      [decision |-> decision, current |-> cached.current]]
    /\ UNCHANGED <<request, cached, poller, result, ctxDone, late, decided>>

\* handleApprovalDecision: only a request that is still pending.
CliGet(c, decision) ==
    /\ deciders[c] = NoDecider
    /\ request \in Undecided
    /\ deciders' = [deciders EXCEPT ![c] =
                      [decision |-> decision, current |-> TRUE]]
    /\ UNCHANGED <<request, cached, poller, result, ctxDone, late, decided>>

DeciderUpdate(d) ==
    /\ deciders[d].current
    /\ request' = deciders[d].decision
    /\ Cached(deciders[d].decision)
    /\ decided' = decided \cup {deciders[d].decision}
    /\ deciders' = [OutdatedDeciders EXCEPT ![d] = NoDecider]
    /\ poller' = [poller EXCEPT !.current = FALSE]
    /\ UNCHANGED <<result, ctxDone, late>>

DeciderFails(d) ==
    /\ deciders[d] # NoDecider
    /\ Faults \/ ~deciders[d].current
    /\ deciders' = [deciders EXCEPT ![d] = NoDecider]
    /\ UNCHANGED <<request, cached, poller, result, ctxDone, late, decided>>

-----------------------------------------------------------------------------
(* Time.                                                                   *)

ContextExpires ==
    /\ ~ctxDone
    /\ ctxDone' = TRUE
    /\ UNCHANGED <<request, cached, poller, result, late, deciders, decided>>

DeadlinePasses ==
    /\ request # NoPhase /\ ~late
    /\ late' = TRUE
    /\ UNCHANGED <<request, cached, poller, result, ctxDone, deciders, decided>>

-----------------------------------------------------------------------------
PollerStep ==
    \/ CreateRequest \/ CreateFails \/ GiveUp \/ Poll
    \/ ExpireSkip \/ ExpireGet \/ ExpireUpdate \/ ExpireUpdateFails

DeciderStep(d) ==
    \/ \E decision \in Decision :
         \/ d \in HttpDeciders /\ HandlerGet(d, decision)
         \/ d \in Clis /\ CliGet(d, decision)
    \/ DeciderUpdate(d) \/ DeciderFails(d)

ApprovalNext ==
    \/ PollerStep \/ ApprovalCacheSync \/ ContextExpires \/ DeadlinePasses
    \/ \E d \in Deciders : DeciderStep(d)

ApprovalSpec == ApprovalInit /\ [][ApprovalNext]_approvalVars

-----------------------------------------------------------------------------
(* Properties.                                                             *)

\* RequestApproval reports a decision only if somebody stored that very
\* decision: no timeout, cache lag, lost update or race of deciders turns
\* into an approval that nobody gave.
ResultWasDecided == result \in Decision => result \in decided

\* Why: what is stored or cached as a decision was decided by somebody; a
\* copy that is current is a copy of what is stored; and whoever checked the
\* phase and still has a current copy can rely on the check.
ApprovalInv ==
    /\ ApprovalTypeOK
    /\ ResultWasDecided
    /\ request \in Decision => request \in decided
    /\ cached.phase \in Decision => cached.phase \in decided
    /\ cached.current => cached.phase = request
    /\ poller.current => request = "Pending"
    /\ poller.pc = "create" => /\ request = NoPhase /\ cached.phase = NoPhase
                               /\ \A d \in Deciders : ~deciders[d].current
    /\ \A d \in Deciders : deciders[d].current => deciders[d].decision # NoPhase
    /\ \A c \in Clis : deciders[c].current => request \in Undecided

\* RequestApproval returns although nobody decides, the polls fail and the
\* expiry cannot be stored: the run's context bounds the wait.
RequestReturns == poller.pc = "poll" ~> poller.pc = "returned"

\* A request that was approved, denied or expired stays so: its phase is
\* final, whoever races whom.
DecisionFinal ==
    [][(request \in Decision \cup {"Expired"}) => request' = request]_approvalVars

\* The command line and the expiry never overwrite a final phase: they check
\* the phase, and the version of the object protects the time from the check
\* to the write. Only an update by the API server or the dashboard, which do
\* not check it, changes a request that was decided.
CheckedDecisionFinal ==
    [][(request \in Decision \cup {"Expired"}) =>
         request' = request \/ \E h \in HttpDeciders : DeciderUpdate(h)]_approvalVars

=============================================================================
