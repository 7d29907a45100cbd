----------------------------- MODULE AgentState -----------------------------
(***************************************************************************)
(* The AgentState object of one agent and the state tools of its runs.     *)
(*                                                                         *)
(*   src/internal/state/manager.go   Get, Set, Delete, ListKeys            *)
(*   src/internal/state/tools.go     state.get, state.set, state.delete    *)
(*                                                                         *)
(* Runs of an agent overlap (a manual and a scheduled one), and read the   *)
(* object through the manager's cache. An operation reads a copy, changes  *)
(* it and writes it back; the API server refuses a copy that is not        *)
(* current. Errors end the operation; Get and ListKeys ignore those of     *)
(* their update.                                                           *)
(***************************************************************************)
EXTENDS Integers, FiniteSets, Functions

CONSTANTS
    StateRuns, StateKeys, ValueSizes, Ttls,
    MaxKeys, MaxValueSize, MaxTotalSize

ASSUME StateConstants ==
    /\ MaxKeys \in Nat /\ MaxValueSize \in Nat
    /\ ValueSizes \subseteq Nat

VARIABLES
    agentState,   \* the object in the API server
    stateCache,   \* the copy in the manager's cache
    stateCall     \* the operation of a run between its read and its write

stateVars == <<agentState, stateCache, stateCall>>

Map == INSTANCE StateMap WITH map <- agentState.entries

Object == [exists |-> FALSE, entries |-> <<>>, total |-> 0]
NoStateCall == [entries |-> <<>>, total |-> 0, current |-> FALSE, busy |-> FALSE]

Totals == 0 .. MaxTotalSize

\* The entries are maps over keys, the copies what the API server held.
StateTypeOK ==
    /\ DOMAIN agentState.entries \subseteq StateKeys
    /\ \A k \in DOMAIN agentState.entries : agentState.entries[k] \in Map!Entry
    /\ agentState.total \in Totals /\ stateCache.total \in Totals
    /\ agentState.exists \in BOOLEAN
    /\ {"exists", "entries", "total", "current"} = DOMAIN stateCache
    /\ \A r \in StateRuns :
         /\ DOMAIN stateCall[r] = DOMAIN NoStateCall
         /\ stateCall[r].total \in Totals

StateInit ==
    /\ agentState = Object
    /\ stateCache = [exists |-> FALSE, entries |-> <<>>, total |-> 0, current |-> FALSE]
    /\ stateCall = [r \in StateRuns |-> NoStateCall]

-----------------------------------------------------------------------------
(* What an operation makes of the copy it read: the entries and the total  *)
(* size to write, or nothing.                                              *)

NothingToWrite == [entries |-> <<>>, total |-> -1]

\* Set: the quotas are checked on the copy. A new key counts against
\* MaxKeys; the total size is summed up anew.
SetOn(m, total, k, e) ==
    LET new == Map!With(m, k, e) IN
    IF /\ e.size <= MaxValueSize
       /\ k \in DOMAIN m \/ Cardinality(DOMAIN m) < MaxKeys
       /\ Map!SizeOf(new) <= MaxTotalSize
    THEN [entries |-> new, total |-> Map!SizeOf(new)]
    ELSE NothingToWrite

\* Delete: an object without entries is left alone; the key need not exist.
DeleteOn(m, total, k) ==
    IF m = <<>>
    THEN NothingToWrite
    ELSE [entries |-> Map!Without(m, {k}), total |-> Map!SizeOf(Map!Without(m, {k}))]

\* Get: an expired entry is removed. The total size is not summed up.
GetOn(m, total, k) ==
    IF k \in DOMAIN m /\ Map!IsExpired(m[k])
    THEN [entries |-> Map!Without(m, {k}), total |-> total]
    ELSE NothingToWrite

\* ListKeys: all expired entries are removed, the total size is kept.
ListKeysOn(m, total) ==
    LET expired == {k \in DOMAIN m : Map!IsExpired(m[k])} IN
    IF expired # {}
    THEN [entries |-> Map!Without(m, expired), total |-> total]
    ELSE NothingToWrite

\* What the operations an agent may ask for make of a copy. The tools
\* refuse an empty key or value before they call the manager.
Outcomes(m, total) ==
    {SetOn(m, total, k, [size |-> n, ttl |-> t, old |-> FALSE]) :
        k \in StateKeys, n \in ValueSizes, t \in Ttls}
    \cup {DeleteOn(m, total, k) : k \in StateKeys}
    \cup {GetOn(m, total, k) : k \in StateKeys}
    \cup {ListKeysOn(m, total)}

-----------------------------------------------------------------------------
(* The operations as steps.                                                *)

CallWith(r, outcome, current) ==
    stateCall' = [stateCall EXCEPT ![r] =
        [entries |-> outcome.entries, total |-> outcome.total,
         current |-> current, busy |-> TRUE]]

\* getOrCreate finds the object in the cache, and the operation computes
\* what it will write. An operation that writes nothing changes nothing.
ReadCached(r) ==
    /\ ~stateCall[r].busy
    /\ stateCache.exists
    /\ \E outcome \in Outcomes(stateCache.entries, stateCache.total) \ {NothingToWrite} :
         CallWith(r, outcome, stateCache.current)
    /\ UNCHANGED <<agentState, stateCache>>

\* getOrCreate creates the object after any error of the Get. If it exists
\* already, the operation ends with that error and changes nothing.
CreateState(r) ==
    /\ ~stateCall[r].busy
    /\ ~agentState.exists
    /\ agentState' = [Object EXCEPT !.exists = TRUE]
    /\ \E outcome \in Outcomes(<<>>, 0) :
         IF outcome = NothingToWrite THEN UNCHANGED stateCall
                                     ELSE CallWith(r, outcome, TRUE)
    /\ UNCHANGED stateCache

Superseded(r) ==
    stateCall' = [q \in StateRuns |-> IF q = r THEN NoStateCall
                                      ELSE [stateCall[q] EXCEPT !.current = FALSE]]

Stored(r) == agentState' = [exists |-> TRUE, entries |-> stateCall[r].entries,
                            total |-> stateCall[r].total]

\* Mutant: the write is taken whatever version was read.
UpdateForced(r) ==
    /\ stateCall[r].busy
    /\ Stored(r) /\ Superseded(r)
    /\ stateCache' = [stateCache EXCEPT !.current = FALSE]

\* updateStatus.
UpdateStatus(r) ==
    /\ stateCall[r].busy
    /\ stateCall[r].current
    /\ Stored(r) /\ Superseded(r)
    /\ stateCache' = [stateCache EXCEPT !.current = FALSE]

\* The update fails, is refused, or the run dies before it.
UpdateFails(r) ==
    /\ stateCall[r].busy
    /\ stateCall' = [stateCall EXCEPT ![r] = NoStateCall]
    /\ UNCHANGED <<agentState, stateCache>>

\* The cache catches up (external).
StateCacheSync ==
    /\ agentState.exists /\ ~stateCache.current
    /\ stateCache' = [exists |-> TRUE, entries |-> agentState.entries,
                      total |-> agentState.total, current |-> TRUE]
    /\ UNCHANGED <<agentState, stateCall>>

\* Time: every entry written until now gets older than its TTL.
StateTtlPasses ==
    /\ agentState' = [agentState EXCEPT !.entries = Map!Aged(@)]
    /\ stateCache' = [stateCache EXCEPT !.entries = Map!Aged(@)]
    /\ stateCall' = [r \in StateRuns |->
                       [stateCall[r] EXCEPT !.entries = Map!Aged(@)]]

StateNext ==
    \/ \E r \in StateRuns :
         ReadCached(r) \/ CreateState(r) \/ UpdateStatus(r) \/ UpdateFails(r)
    \/ StateCacheSync \/ StateTtlPasses

StateSpec == StateInit /\ [][StateNext]_stateVars

-----------------------------------------------------------------------------
(* Properties.                                                             *)

\* The runs' operations have the effect of operations on one map, each
\* atomic, each within the quotas: although runs overlap and read a stale
\* cache, no write takes away what another run stored, and no two writes
\* that each fit exceed a quota together.
StateIsMap == Map!MapSpec

\* Why: what an operation is about to write from a copy that is current is
\* the outcome of one atomic operation on what is stored, and stays so when
\* both grow older.
CanBecome(m, n) ==
    \/ \E k \in StateKeys : n = Map!Without(m, {k})
    \/ \E k \in StateKeys, e \in Map!Entry : n = Map!With(m, k, e) /\ Map!WithinQuota(n)
    \/ \E S \in SUBSET DOMAIN m :
         (\A k \in S : Map!IsExpired(m[k])) /\ n = Map!Without(m, S)

Entries(m) ==
    /\ m = [k \in DOMAIN m |-> m[k]]
    /\ DOMAIN m \subseteq StateKeys /\ IsFiniteSet(DOMAIN m)
    /\ Cardinality(DOMAIN m) <= MaxKeys
    /\ \A k \in DOMAIN m : m[k] \in Map!Entry /\ m[k].size <= MaxValueSize

StateInv ==
    /\ DOMAIN agentState = DOMAIN Object
    /\ DOMAIN stateCache = DOMAIN Object \cup {"current"}
    /\ DOMAIN stateCall = StateRuns
    /\ \A r \in StateRuns : DOMAIN stateCall[r] = DOMAIN NoStateCall
    /\ Entries(agentState.entries)
    /\ ~agentState.exists => agentState.entries = <<>>
    /\ stateCache.current => /\ agentState.exists
                             /\ stateCache.entries = agentState.entries
    /\ \A r \in StateRuns : stateCall[r].current =>
         /\ agentState.exists
         /\ CanBecome(agentState.entries, stateCall[r].entries)

=============================================================================
