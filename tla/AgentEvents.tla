----------------------------- MODULE AgentEvents ----------------------------
(***************************************************************************)
(* One AgentEvent object: a finding on the event bus, or a task that one   *)
(* agent delegates to another. Both live in the same kind of object, so    *)
(* the bus sees tasks, and its cleaning deletes them.                      *)
(*                                                                         *)
(*   src/internal/events/bus.go     Publish, FindNewEvents, Consume,       *)
(*                                  CleanExpired                           *)
(*   src/internal/a2a/protocol.go   DelegateTask, updateTaskStatus,        *)
(*                                  ExpireOldTasks, GetPendingTasks        *)
(*                                                                         *)
(* Runs read through the manager's cache. Writes of the object and of its  *)
(* status subresource share one resourceVersion; a write replaces only its *)
(* own part. A deletion carries no version.                                *)
(***************************************************************************)
EXTENDS Integers

CONSTANTS
    Subscribers,    \* agents that look for events; one is a task's target
    Target,
    EventRuns,      \* runs and maintenance calls at the same time
    ConsumeBound    \* bound: consumptions recorded per agent

ASSUME EventConstants ==
    /\ Target \in Subscribers
    /\ ConsumeBound \in Nat \ {0}

TaskStatuses ==
    {"pending", "accepted", "completed", "failed", "rejected", "expired"}

VARIABLES
    event,        \* the object in the API server
    eventCache,   \* the copy in the manager's cache
    eventCall     \* what a run does with the object, and the copy it read

eventVars == <<event, eventCache, eventCall>>

\* kind: "none" before the creation, "deleted" after the deletion.
NoEvent == [kind |-> "none", status |-> "pending", phase |-> "",
            consumed |-> [a \in Subscribers |-> 0], old |-> FALSE]

EventObject == [kind : {"none", "task", "finding", "deleted"},
                status : TaskStatuses, phase : {"", "New", "Consumed"},
                consumed : [Subscribers -> 0 .. ConsumeBound], old : BOOLEAN]

EventCallRec == [op : {"idle", "initStatus", "found", "consume", "working", "setStatus",
                       "expire", "clean"},
                 arg : TaskStatuses \cup Subscribers \cup {"none"},
                 consumed : [Subscribers -> 0 .. ConsumeBound], current : BOOLEAN]

NoEventCall == [op |-> "idle", arg |-> "none", consumed |-> NoEvent.consumed,
                current |-> FALSE]

EventTypeOK ==
    /\ event \in EventObject
    /\ eventCache \in [copy : EventObject, current : BOOLEAN]
    /\ eventCall \in [EventRuns -> EventCallRec]

EventInit ==
    /\ event = NoEvent
    /\ eventCache = [copy |-> NoEvent, current |-> FALSE]
    /\ eventCall = [r \in EventRuns |-> NoEventCall]

InCache == eventCache.copy.kind \in {"task", "finding"}

Exists == event.kind \in {"task", "finding"}

\* Run r goes on with a copy of the object.
EventCalls(r, op, arg, copy, current) ==
    eventCall' = [eventCall EXCEPT ![r] =
        [op |-> op, arg |-> arg, consumed |-> copy.consumed, current |-> current]]

\* r's write is stored, and every other copy is outdated.
EventStored(r, new) ==
    /\ event' = new
    /\ eventCache' = [eventCache EXCEPT !.current = FALSE]
    /\ eventCall' = [q \in EventRuns |->
         IF q # r THEN [eventCall[q] EXCEPT !.current = FALSE]
         ELSE [NoEventCall EXCEPT !.op = IF eventCall[r].op = "setStatus" THEN "working"
                                         ELSE "idle"]]

-----------------------------------------------------------------------------
(* Creation.                                                               *)

\* DelegateTask: one Create, with the task's status in a label. A second
\* task with the same name (same agents, same millisecond) is refused.
DelegateTask(r) ==
    /\ eventCall[r].op = "idle" /\ event.kind = "none"
    /\ event' = [NoEvent EXCEPT !.kind = "task"]
    /\ UNCHANGED <<eventCache, eventCall>>

\* Publish: Create, then an update of the status.
Publish(r) ==
    /\ eventCall[r].op = "idle" /\ event.kind = "none"
    /\ event' = [NoEvent EXCEPT !.kind = "finding"]
    /\ EventCalls(r, "initStatus", "none", event', TRUE)
    /\ UNCHANGED eventCache

PublishStatus(r) ==
    /\ eventCall[r].op = "initStatus" /\ Exists /\ eventCall[r].current
    /\ EventStored(r, [event EXCEPT !.phase = "New",
                                    !.consumed = eventCall[r].consumed])

-----------------------------------------------------------------------------
(* Subscribers.                                                            *)

\* FindNewEvents on the cached list: not for another agent, not consumed by
\* this one, not past its TTL. The phase Expired it skips is never written.
FindNewEvents(r, a) ==
    /\ eventCall[r].op = "idle" /\ InCache
    /\ eventCache.copy.kind = "task" => a = Target
    /\ eventCache.copy.consumed[a] = 0
    /\ ~eventCache.copy.old
    /\ EventCalls(r, "found", a, NoEvent, FALSE)
    /\ UNCHANGED <<event, eventCache>>

\* Consume reads the object again. Whether the agent consumed it meanwhile
\* is not looked at.
ConsumeGet(r) ==
    /\ eventCall[r].op = "found" /\ InCache
    /\ eventCache.copy.consumed[eventCall[r].arg] < ConsumeBound
    /\ EventCalls(r, "consume", eventCall[r].arg, eventCache.copy, eventCache.current)
    /\ UNCHANGED <<event, eventCache>>

ConsumeUpdate(r) ==
    /\ eventCall[r].op = "consume" /\ Exists /\ eventCall[r].current
    /\ EventStored(r, [event EXCEPT !.phase = "Consumed",
                         !.consumed = [eventCall[r].consumed EXCEPT
                                          ![eventCall[r].arg] = @ + 1]])

-----------------------------------------------------------------------------
(* Tasks.                                                                  *)

\* GetPendingTasks on the cached list. The order by priority and age
\* concerns several tasks.
PendingTask == InCache /\ eventCache.copy.kind = "task"
                       /\ eventCache.copy.status = "pending"

\* A run of the target checks its tasks, and works on what it found.
CheckTasks(r) ==
    /\ eventCall[r].op = "idle" /\ PendingTask
    /\ EventCalls(r, "working", "none", NoEvent, FALSE)
    /\ UNCHANGED <<event, eventCache>>

\* AcceptTask, CompleteTask, FailTask and RejectTask read the object; its
\* present status is not looked at.
TaskGet(r, status) ==
    /\ eventCall[r].op = "working" /\ InCache
    /\ EventCalls(r, "setStatus", status, eventCache.copy, eventCache.current)
    /\ UNCHANGED <<event, eventCache>>

\* updateTaskStatus.
TaskUpdate(r) ==
    /\ eventCall[r].op = "setStatus" /\ Exists /\ eventCall[r].current
    /\ EventStored(r, [event EXCEPT !.status = eventCall[r].arg])

\* ExpireOldTasks lists the pending tasks, and keeps the old ones.
ExpireList(r) ==
    /\ eventCall[r].op = "idle" /\ PendingTask /\ eventCache.copy.old
    /\ EventCalls(r, "expire", "none", eventCache.copy, eventCache.current)
    /\ UNCHANGED <<event, eventCache>>

\* Mutant: the task expires whatever it has become since it was listed.
ExpireUpdateUnchecked(r) ==
    /\ eventCall[r].op = "expire" /\ Exists
    /\ EventStored(r, [event EXCEPT !.status = "expired"])

\* The update of one listed task. A refused one is skipped.
ExpireUpdateTask(r) ==
    /\ eventCall[r].op = "expire" /\ Exists /\ eventCall[r].current
    /\ EventStored(r, [event EXCEPT !.status = "expired"])

-----------------------------------------------------------------------------

\* CleanExpired: lists, and deletes what was older than its TTL, tasks
\* included: DelegateTask leaves the TTL to its default of one hour.
CleanList(r) ==
    /\ eventCall[r].op = "idle" /\ InCache /\ eventCache.copy.old
    /\ EventCalls(r, "clean", "none", NoEvent, FALSE)
    /\ UNCHANGED <<event, eventCache>>

CleanDelete(r) ==
    /\ eventCall[r].op = "clean" /\ Exists
    /\ EventStored(r, [event EXCEPT !.kind = "deleted"])

\* A call fails, is refused or finds no object; the caller gives up.
EventCallFails(r) ==
    /\ eventCall[r].op # "idle"
    /\ eventCall' = [eventCall EXCEPT ![r] = NoEventCall]
    /\ UNCHANGED <<event, eventCache>>

\* The cache catches up (external).
EventCacheSync ==
    /\ event.kind # "none" /\ ~eventCache.current
    /\ eventCache' = [copy |-> event, current |-> TRUE]
    /\ UNCHANGED <<event, eventCall>>

\* Time: the object gets older than its TTL, which is fixed at its creation.
EventTtlPasses ==
    /\ Exists /\ ~event.old
    /\ event' = [event EXCEPT !.old = TRUE]
    /\ eventCache' = [eventCache EXCEPT !.copy.old = InCache]
    /\ UNCHANGED eventCall

EventNext ==
    \/ \E r \in EventRuns :
         \/ DelegateTask(r) \/ Publish(r) \/ PublishStatus(r)
         \/ \E a \in Subscribers : FindNewEvents(r, a)
         \/ ConsumeGet(r) \/ ConsumeUpdate(r)
         \/ \E s \in TaskStatuses \ {"pending", "expired"} : TaskGet(r, s)
         \/ CheckTasks(r) \/ TaskUpdate(r) \/ ExpireList(r) \/ ExpireUpdateTask(r)
         \/ CleanList(r) \/ CleanDelete(r) \/ EventCallFails(r)
    \/ EventCacheSync \/ EventTtlPasses

EventSpec == EventInit /\ [][EventNext]_eventVars

-----------------------------------------------------------------------------
(* Properties.                                                             *)

\* What a call holds, when the object is e.
CallSound(call, e) ==
    /\ call.current => call.consumed = e.consumed
    /\ call.op = "expire" /\ call.current => e.status = "pending"
    /\ call.op = "setStatus" => call.arg \in TaskStatuses \ {"pending", "expired"}
    /\ call.op \in {"found", "consume"} => call.arg \in Subscribers
    /\ call.op = "consume" => call.consumed[call.arg] < ConsumeBound

\* Why no writer undoes another: a copy that is still current is the stored
\* object, as far as the call that holds it goes, and an object that does not
\* exist yet has no current copies.
EventInv ==
    /\ EventTypeOK
    /\ eventCache.current => eventCache.copy = event
    /\ event.kind = "none" =>
         ~eventCache.current /\ \A r \in EventRuns : ~eventCall[r].current
    /\ \A r \in EventRuns : CallSound(eventCall[r], event)

\* No writer of a shared AgentEvent undoes another one's record. A recorded
\* consumption stays recorded as long as the event exists: not the
\* publisher's late status update, another consumer nor a change of the task's
\* status takes it back. And a task that expires was pending until then:
\* ExpireOldTasks works on an old list, and never takes away a task that was
\* accepted or finished after the list was read.
NoWriterUndone ==
    [][/\ (Exists /\ Exists') =>
            \A a \in Subscribers : event'.consumed[a] >= event.consumed[a]
       /\ (event'.status = "expired" /\ event.status # "expired") =>
            event.status = "pending"]_eventVars

=============================================================================
