------------------------------ MODULE MCWaits -------------------------------
(***************************************************************************)
(* Finite instances of the components something waits for: that the        *)
(* scheduler takes a trigger, an approval returns, a webhook is answered,  *)
(* an old run is deleted, a lost device goes offline; and of the command   *)
(* line's login, whose token file the commands wait to write. A            *)
(* behaviour is one of one component, chosen by focus, and the others stay *)
(* in their initial states: the components share no state, so their        *)
(* interleavings would show nothing more.                                  *)
(***************************************************************************)
EXTENDS RunAdmission, Approval, Webhook, Retention, Inventory, TokenCache, TLC

CONSTANTS a1, s1

\* The list of webhook sources of the one agent here, naming a source twice.
MCLists == a1 :> {<<>>, <<s1, s1>>}

VARIABLE focus

waitsVars == <<focus, admissionVars, approvalVars, webhookVars, retentionVars,
               inventoryVars, tokenVars>>

WaitsInit ==
    /\ focus \in {"admission", "approval", "webhook", "retention", "inventory", "login"}
    /\ AdmissionInit /\ ApprovalInit /\ WebhookInit
    /\ RetentionInit /\ InventoryInit /\ TokenInit

InAdmission == /\ focus = "admission"
               /\ UNCHANGED <<focus, approvalVars, webhookVars, retentionVars,
                              inventoryVars, tokenVars>>
InApproval == /\ focus = "approval"
              /\ UNCHANGED <<focus, admissionVars, webhookVars, retentionVars,
                             inventoryVars, tokenVars>>
InWebhook == /\ focus = "webhook"
             /\ UNCHANGED <<focus, admissionVars, approvalVars, retentionVars,
                            inventoryVars, tokenVars>>
InRetention == /\ focus = "retention"
               /\ UNCHANGED <<focus, admissionVars, approvalVars, webhookVars,
                              inventoryVars, tokenVars>>
InInventory == /\ focus = "inventory"
               /\ UNCHANGED <<focus, admissionVars, approvalVars, webhookVars,
                              retentionVars, tokenVars>>
InLogin == /\ focus = "login"
           /\ UNCHANGED <<focus, admissionVars, approvalVars, webhookVars,
                          retentionVars, inventoryVars>>

WaitsNext ==
    \/ InAdmission /\ AdmissionNext
    \/ InApproval /\ ApprovalNext
    \/ InWebhook /\ WebhookNext
    \/ InRetention /\ RetentionNext
    \/ InInventory /\ InventoryNext
    \/ InLogin /\ TokenNext

-----------------------------------------------------------------------------
(* Fairness. Admission: the scheduling goroutine keeps running, a run ends *)
(* because Execute has a wall-clock timeout, and a Go select chooses at    *)
(* random among the ready cases, so a queued trigger is taken in the end.  *)
(* Approval: the run's goroutine keeps running and its context has a       *)
(* timeout; that anybody decides is not assumed. Webhook: a handler never  *)
(* waits; the scheduler may never receive. Retention: every scan comes, the *)
(* cache catches up, and a deletion tried again and again succeeds.        *)
(* Inventory: syncs keep coming and keep succeeding from time to time.     *)
(* Login: none. A behaviour has steps of one component only, so that one   *)
(* strong fairness condition says the same as one for each disjunct.       *)
WaitsFairness ==
    /\ WF_waitsVars(InAdmission /\ SchedulerStep)
    /\ \A r \in RunIds : WF_waitsVars(InAdmission /\ RunStep(r))
    /\ WF_waitsVars(InApproval /\ PollerStep)
    /\ WF_waitsVars(InApproval /\ ContextExpires)
    /\ \A h \in Handlers : WF_waitsVars(InWebhook /\ HandlerStep(h))
    /\ WF_waitsVars(InRetention /\ Scan)
    /\ \A r \in StoredRuns : WF_waitsVars(InRetention /\ RunCacheSync(r))
    /\ WF_waitsVars(InInventory /\ fetchNodes)
    /\ SF_waitsVars(\/ InAdmission /\ TakeTrigger
                    \/ InRetention /\ DeleteNext
                    \/ InInventory /\ ApplySync)

WaitsSpec == WaitsInit /\ [][WaitsNext]_waitsVars /\ WaitsFairness

(* Every component keeps its state within its type, and the inductive      *)
(* invariant its proofs rest on, whatever handlers, deciders, scans and    *)
(* commands overlap.                                                       *)
WaitsInv ==
    /\ AdmissionTypeOK /\ ApprovalInv /\ WebhookInv
    /\ RetentionInv /\ InventoryInv /\ TokenInv

(* A trigger gets through: a webhook request is answered even when the     *)
(* trigger channel is full, and the scheduling goroutine takes triggers    *)
(* out of a full channel in the end, however many ticks come meanwhile.    *)
TriggersGetThrough == RequestAnswered /\ FullChannelDrains

(* What is left over goes away: a run that is old, over and not among the  *)
(* newest of its agent is deleted in the end, whatever other runs keep a   *)
(* scan busy, and a device that has left Headscale is not shown online for *)
(* ever.                                                                   *)
LeftoversGo == OldRunsDeleted /\ GoneIsOffline

=============================================================================
