------------------------------ MODULE StateMap ------------------------------
(***************************************************************************)
(* What the state tools promise to an agent: a map from keys to entries    *)
(* that never exceeds its quotas, in which an operation touches one key,   *)
(* and from which only expired entries disappear by themselves. Module     *)
(* AgentState, where runs of the agent overlap and read a lagging cache,   *)
(* is checked to implement it.                                             *)
(***************************************************************************)
EXTENDS Integers, FiniteSets, Functions

CONSTANTS
    StateKeys,
    ValueSizes,     \* sizes of the values the runs try to store
    Ttls,           \* subset of {"none", "parsed", "unparsed"}
    MaxKeys, MaxValueSize, MaxTotalSize

VARIABLE map

\* An entry, and whether its TTL has passed since UpdatedAt.
Entry == [size : ValueSizes, ttl : Ttls, old : BOOLEAN]

\* The code ignores a TTL that time.ParseDuration does not take ("7d").
IsExpired(e) == e.ttl = "parsed" /\ e.old

\* Keys have size 1 in this model.
Sizes(m) == [k \in DOMAIN m |-> m[k].size + 1]

SizeOf(m) == FoldFunction(LAMBDA n, sum : sum + n, 0, Sizes(m))

Without(m, S) == Restrict(m, DOMAIN m \ S)

With(m, k, e) == [x \in DOMAIN m \cup {k} |-> IF x = k THEN e ELSE m[x]]

WithinQuota(m) ==
    /\ Cardinality(DOMAIN m) <= MaxKeys
    /\ \A k \in DOMAIN m : m[k].size <= MaxValueSize
    /\ SizeOf(m) <= MaxTotalSize

Aged(m) == [k \in DOMAIN m |-> [m[k] EXCEPT !.old = TRUE]]

MapInit == map = <<>>

Put(k, e) == map' = With(map, k, e) /\ WithinQuota(map')

Remove(k) == map' = Without(map, {k})

Expire(S) ==
    /\ \A k \in S : IsExpired(map[k])
    /\ map' = Without(map, S)

Age == map' = Aged(map)

MapNext ==
    \/ \E k \in StateKeys : Remove(k) \/ \E e \in Entry : Put(k, e)
    \/ \E S \in SUBSET DOMAIN map : Expire(S)
    \/ Age

MapSpec == MapInit /\ [][MapNext]_map

=============================================================================
