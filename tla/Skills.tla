-------------------------------- MODULE Skills --------------------------------
(***************************************************************************)
(* Skills: publishing them, loading them and the loader's cache.           *)
(*                                                                         *)
(*   src/internal/skill/loader.go, git.go, cache.go                        *)
(*   src/internal/skills/oci.go, registry.go   Pack, Push, Pull            *)
(*                                                                         *)
(* A skill is published in versions; what a version contains is reduced to *)
(* whether it has its SKILL.md and whether its actions.yaml parses. Loads  *)
(* run concurrently and share one cache. (The assembler makes its loader   *)
(* without a cache; the cached loader is for callers that load the same    *)
(* skill again.) oras and git are external: a push copies the blobs, then  *)
(* the manifest and the tag; a blob is addressed by its digest.            *)
(***************************************************************************)
EXTENDS Integers, FiniteSets

CONSTANTS
    SkillSources,   \* source strings, one for each way to load
    SourceKind,     \* "oci", "git", "configmap" or "bundled" for each
    Versions,       \* the versions that may be published
    Contents,       \* what each contains: "ok", "no-skill" or "bad-actions"
    Loads,          \* concurrent calls of Load
    CacheTtl        \* in ticks, 0 for never

ASSUME SkillConstants ==
    /\ SourceKind \in [SkillSources -> {"oci", "git", "configmap", "bundled"}]
    /\ Contents \in [Versions -> {"ok", "no-skill", "bad-actions"}]
    /\ CacheTtl \in Nat
    /\ SkillSources # {}

VARIABLES
    published,      \* the version each source names now, 0 for none
    blobs,          \* versions whose content is in the registry
    push,           \* the publisher
    skillCache,     \* the loader's cache
    load            \* each call of Load

skillVars == <<published, blobs, push, skillCache, load>>

AnyVersion == Versions \cup {0}
NoEntry == [version |-> 0, actions |-> FALSE, age |-> 0]

Ages == 0 .. CacheTtl + 1

PushRec == [pc : {"idle", "blobs", "tag"}, source : SkillSources, version : AnyVersion]
EntryRec == [version : AnyVersion, actions : BOOLEAN, age : Ages]
LoadRec == [pc : {"idle", "pull", "layers", "parse", "put", "done", "error"},
            source : SkillSources, version : AnyVersion, actions : BOOLEAN, cachedFor : Ages]

SkillTypeOK ==
    /\ published \in [SkillSources -> AnyVersion]
    /\ blobs \subseteq Versions
    /\ push \in PushRec
    /\ skillCache \in [SkillSources -> EntryRec]
    /\ load \in [Loads -> LoadRec]

SkillInit ==
    /\ published = [s \in SkillSources |-> 0]
    /\ blobs = {}
    /\ push = [pc |-> "idle", source |-> CHOOSE s \in SkillSources : TRUE, version |-> 0]
    /\ skillCache = [s \in SkillSources |-> NoEntry]
    /\ load = [l \in Loads |-> [pc |-> "idle", source |-> CHOOSE s \in SkillSources : TRUE,
                                version |-> 0, actions |-> FALSE, cachedFor |-> 0]]

-----------------------------------------------------------------------------
(* Publishing.                                                             *)

\* Pack: a directory without SKILL.md is refused.
Pack(s, v) ==
    /\ push.pc = "idle" /\ Contents[v] # "no-skill" /\ SourceKind[s] = "oci"
    /\ push' = [pc |-> "blobs", source |-> s, version |-> v]
    /\ UNCHANGED <<published, blobs, skillCache, load>>

\* Push: the blobs, then manifest and tag; it may fail in between.
Push ==
    /\ \/ /\ push.pc = "blobs"
          /\ blobs' = blobs \cup {push.version}
          /\ push' = [push EXCEPT !.pc = "tag"] /\ UNCHANGED published
       \/ /\ push.pc = "tag"
          /\ published' = [published EXCEPT ![push.source] = push.version]
          /\ push' = [push EXCEPT !.pc = "idle"] /\ UNCHANGED blobs
       \/ /\ push.pc # "idle" /\ push' = [push EXCEPT !.pc = "idle"] /\ UNCHANGED <<blobs, published>>
    /\ UNCHANGED <<skillCache, load>>

\* External: a commit, or an edit of the ConfigMap, of any content.
Commit(s, v) ==
    /\ SourceKind[s] \in {"git", "configmap"} /\ published[s] # v
    /\ published' = [published EXCEPT ![s] = v]
    /\ UNCHANGED <<blobs, push, skillCache, load>>

-----------------------------------------------------------------------------
(* Loading.                                                                *)

Fresh(s) == skillCache[s].version # 0 /\ (CacheTtl = 0 \/ skillCache[s].age <= CacheTtl)

\* Load: by the source's prefix. oci and git look in the cache first (by the
\* source string, by URL, path and ref); a ConfigMap is always read; a bundled
\* skill is a stub.
Load(l, s) ==
    /\ load[l].pc = "idle"
    /\ load' = [load EXCEPT ![l] =
         IF SourceKind[s] = "bundled"
         THEN [pc |-> "done", source |-> s, version |-> 0, actions |-> FALSE, cachedFor |-> 0]
         ELSE IF SourceKind[s] # "configmap" /\ Fresh(s)
         THEN [pc |-> "done", source |-> s, version |-> skillCache[s].version,
               actions |-> skillCache[s].actions, cachedFor |-> skillCache[s].age]
         ELSE [pc |-> "pull", source |-> s, version |-> 0, actions |-> FALSE, cachedFor |-> 0]]
    /\ UNCHANGED <<published, blobs, push, skillCache>>

\* Pull resolves the tag to a manifest; git clones the ref (if the branch is not
\* found, all of it, and checks the commit out); the ConfigMap is read.
Pull(l) ==
    /\ load[l].pc = "pull"
    /\ \/ /\ published[load[l].source] # 0
          /\ load' = [load EXCEPT ![l] = [@ EXCEPT !.version = published[load[l].source],
                        !.pc = IF SourceKind[load[l].source] = "oci" THEN "layers" ELSE "parse"]]
       \/ load' = [load EXCEPT ![l].pc = "error"]
    /\ UNCHANGED <<published, blobs, push, skillCache>>

\* The manifest's content layer, by digest.
PullLayers(l) ==
    /\ load[l].pc = "layers"
    /\ \/ load[l].version \in blobs /\ load' = [load EXCEPT ![l].pc = "parse"]
       \/ load' = [load EXCEPT ![l].pc = "error"]
    /\ UNCHANGED <<published, blobs, push, skillCache>>

\* Mutant: a skill is cached before it has been parsed.
ParseAnyway(l) ==
    /\ load[l].pc = "parse"
    /\ load' = [load EXCEPT ![l] = [@ EXCEPT !.actions = Contents[load[l].version] = "ok",
                        !.pc = IF SourceKind[load[l].source] = "configmap" THEN "done" ELSE "put"]]
    /\ UNCHANGED <<published, blobs, push, skillCache>>

\* SKILL.md and its front matter, then actions.yaml: a bad one is an error from
\* git and from a ConfigMap, and is dropped from an OCI artifact.
Parse(l) ==
    LET kind == SourceKind[load[l].source]
        content == Contents[load[l].version]
    IN /\ load[l].pc = "parse"
       /\ load' = [load EXCEPT ![l] = [@ EXCEPT
            !.actions = content = "ok",
            !.pc = IF content = "no-skill" \/ (content = "bad-actions" /\ kind # "oci") THEN "error"
                   ELSE IF kind = "configmap" THEN "done" ELSE "put"]]
       /\ UNCHANGED <<published, blobs, push, skillCache>>

Put(l) ==
    /\ load[l].pc = "put"
    /\ skillCache' = [skillCache EXCEPT ![load[l].source] =
                        [version |-> load[l].version, actions |-> load[l].actions, age |-> 0]]
    /\ load' = [load EXCEPT ![l].pc = "done"]
    /\ UNCHANGED <<published, blobs, push>>

LoadReturns(l) ==
    /\ load[l].pc \in {"done", "error"}
    /\ load' = [load EXCEPT ![l] = [pc |-> "idle", source |-> CHOOSE s \in SkillSources : TRUE,
                                    version |-> 0, actions |-> FALSE, cachedFor |-> 0]]
    /\ UNCHANGED <<published, blobs, push, skillCache>>

-----------------------------------------------------------------------------
(* The cache.                                                              *)

Invalidate(s) ==
    /\ skillCache[s] # NoEntry
    /\ skillCache' = [skillCache EXCEPT ![s] = NoEntry]
    /\ UNCHANGED <<published, blobs, push, load>>

CleanExpired ==
    /\ CacheTtl # 0
    /\ skillCache' = [s \in SkillSources |-> IF Fresh(s) THEN skillCache[s] ELSE NoEntry]
    /\ UNCHANGED <<published, blobs, push, load>>

CacheTick ==
    /\ skillCache' = [s \in SkillSources |->
         IF skillCache[s].version = 0 \/ skillCache[s].age > CacheTtl THEN skillCache[s]
         ELSE [skillCache[s] EXCEPT !.age = @ + 1]]
    /\ UNCHANGED <<published, blobs, push, load>>

SkillNext ==
    \/ \E s \in SkillSources, v \in Versions : Pack(s, v)
    \/ Push
    \/ \E s \in SkillSources, v \in Versions : Commit(s, v)
    \/ \E l \in Loads, s \in SkillSources : Load(l, s)
    \/ \E l \in Loads : Pull(l)
    \/ \E l \in Loads : PullLayers(l)
    \/ \E l \in Loads : Parse(l)
    \/ \E l \in Loads : Put(l)
    \/ \E l \in Loads : LoadReturns(l)
    \/ \E s \in SkillSources : Invalidate(s)
    \/ CleanExpired
    \/ CacheTick

SkillSpec == SkillInit /\ [][SkillNext]_skillVars

-----------------------------------------------------------------------------
\* What is known of a skill whose version v came from s, with the blobs of the
\* registry as they are.
Whole(s, v, actions, stored) ==
    /\ Contents[v] # "no-skill"
    /\ Contents[v] = "bad-actions" => SourceKind[s] = "oci" /\ ~actions
    /\ SourceKind[s] = "oci" => v \in stored

(* A load never returns, and the cache never holds, half a skill: a        *)
(* version that was only partly pushed, one without its SKILL.md, or,      *)
(* except from an OCI artifact, one that lost an actions.yaml it has,      *)
(* whatever loads, pushes and invalidations ran meanwhile.                 *)
OnlyWholeSkills ==
    /\ \A s \in SkillSources : skillCache[s].version # 0 =>
         Whole(s, skillCache[s].version, skillCache[s].actions, blobs)
    /\ \A l \in Loads : load[l].pc = "done" /\ load[l].version # 0 =>
         Whole(load[l].source, load[l].version, load[l].actions, blobs)

(* A load that is answered from the cache returns what was put there at    *)
(* most a time-to-live ago.                                                *)
CacheRespectsTtl ==
    CacheTtl # 0 => \A l \in Loads : load[l].pc = "done" => load[l].cachedFor <= CacheTtl

\* What Load returns is a skill somebody published, whole and not too old.
LoadedSkillsSound == OnlyWholeSkills /\ CacheRespectsTtl

\* What a call of Load holds at each of its steps.
LoadSound(call, stored) ==
    /\ call.pc \in {"layers", "parse", "put"} => call.version # 0
    /\ call.pc = "parse" /\ SourceKind[call.source] = "oci" => call.version \in stored
    /\ call.pc \in {"put", "done"} /\ call.version # 0 =>
         Whole(call.source, call.version, call.actions, stored)
    /\ CacheTtl # 0 => call.cachedFor <= CacheTtl

(* What makes it so: a call has seen its blobs before it parses, has       *)
(* parsed before it puts, and the registry only gains blobs, those of a    *)
(* version that was packed.                                                *)
SkillInv ==
    /\ SkillTypeOK
    /\ LoadedSkillsSound
    /\ push.pc # "idle" => push.version \in Versions
    /\ \A l \in Loads : LoadSound(load[l], blobs)

=============================================================================
