---------------------------- MODULE Credentials -----------------------------
(***************************************************************************)
(* The configuration of one scheduled run and the credentials it borrows.  *)
(*                                                                         *)
(*   src/cmd/main.go                        RunConfigFactory and helpers   *)
(*   src/internal/resolver/environment.go   Resolve                        *)
(*   src/internal/vault/client.go           the Vault HTTP client          *)
(*   src/internal/vault/credentials.go      CredentialManager              *)
(*                                                                         *)
(* A credential is the set of keys it holds; the values do not matter.     *)
(* One behaviour is one run: its factory, its execution, its cleanup.      *)
(***************************************************************************)
EXTENDS Integers, FiniteSets

CONSTANTS
    CredNames,   \* the credentials of the environment, by name
    CredSpecs    \* the specs one may have, records [type, secretKeys]

VaultTypes == {"vault-kv", "vault-ssh-ca", "vault-database"}

\* The keys of a credential that some tool looks at.
CredKeys == {"host", "user", "username", "password", "private-key",
             "certificate", "driver", "token"}

ASSUME CredConstants ==
    CredSpecs # {} /\ \A s \in CredSpecs : s.secretKeys \subseteq CredKeys

VARIABLES
    envSpec,   \* the credential specs of the agent's environment
    factory,   \* RunConfigFactory and then the run: its progress
    env,       \* ResolvedEnvironment.Credentials, name -> keys
    credMgr,   \* CredentialManager: pending requests and what it tracks
    toolset,   \* which credentials each tool of the registry was given
    vault      \* Vault: live leases, and those nobody here knows about

credVars == <<envSpec, factory, env, credMgr, toolset, vault>>

NoTools == [ssh |-> {}, sql |-> {}, http |-> {}]
NoManager == [made |-> FALSE, ssh |-> {}, db |-> {}, leases |-> {}, sshKeys |-> {}]

CredTypeOK ==
    /\ envSpec \in [CredNames -> CredSpecs]
    /\ factory \in {"start", "resolve", "vault", "ssh", "db", "registry",
                    "ready", "finished", "done", "error"}
    /\ env \in [CredNames -> SUBSET CredKeys]
    /\ credMgr \in [made : BOOLEAN, ssh : SUBSET CredNames, db : SUBSET CredNames,
                    leases : SUBSET CredNames, sshKeys : SUBSET CredNames]
    /\ toolset \in [ssh : SUBSET CredNames, sql : SUBSET CredNames,
                    http : SUBSET CredNames]
    /\ vault \in [live : SUBSET CredNames, unknown : SUBSET CredNames]

CredInit ==
    /\ envSpec \in [CredNames -> {CHOOSE s \in CredSpecs : TRUE}]
    /\ factory = "start"
    /\ env = [c \in CredNames |-> {}]
    /\ credMgr = NoManager
    /\ toolset = NoTools
    /\ vault = [live |-> {}, unknown |-> {}]

-----------------------------------------------------------------------------
(* The factory.                                                            *)

\* providerFactory comes first: a missing ModelTierConfig, tier mapping or
\* auth secret, or an unsupported provider, ends the factory.
ProviderFactory(ok, spec) ==
    /\ factory = "start"
    /\ envSpec' = spec
    /\ factory' = IF ok THEN "resolve" ELSE "error"
    /\ UNCHANGED <<env, credMgr, toolset, vault>>

\* What Resolve makes of one credential: the secret's keys, and an empty map
\* for a Vault credential, whatever its spec says besides the type.
ResolvedKeys(spec) ==
    IF spec.type \in VaultTypes THEN {} ELSE spec.secretKeys

\* EnvironmentResolver.Resolve. One unreadable secret fails it, which the
\* factory ignores: it goes on to the registry without an environment. The
\* connectivity check only logs.
ResolveEnvironment(ok) ==
    /\ factory = "resolve"
    /\ env' = [c \in CredNames |-> IF ok THEN ResolvedKeys(envSpec[c]) ELSE {}]
    /\ factory' = IF ok THEN "vault" ELSE "registry"
    /\ UNCHANGED <<envSpec, credMgr, toolset, vault>>

OfType(t) == {c \in CredNames : envSpec[c].type = t}

\* getVaultConfigFromEnv, NewClient, Authenticate: without a token or a role,
\* an address or a successful login there is no credential manager.
VaultLogin(ok) ==
    /\ factory = "vault"
    /\ credMgr' = IF ok THEN [credMgr EXCEPT !.made = TRUE, !.ssh = OfType("vault-ssh-ca"),
                                             !.db = OfType("vault-database")]
                        ELSE credMgr
    /\ factory' = IF ok THEN "ssh" ELSE "registry"
    /\ UNCHANGED <<envSpec, env, toolset, vault>>

\* RequestSSHCredentials: a key pair is made, signed and tracked.
RequestSSHCredentials(c, ok) ==
    /\ credMgr' = [credMgr EXCEPT !.ssh = @ \ {c},
                                  !.sshKeys = IF ok THEN @ \cup {c} ELSE @]
    /\ UNCHANGED vault

\* requestVaultSSHCredentials, one credential: it is put in the environment,
\* or the error is logged.
RequestSSH(c, ok) ==
    /\ factory = "ssh" /\ c \in credMgr.ssh
    /\ RequestSSHCredentials(c, ok)
    /\ env' = [env EXCEPT ![c] =
                 IF ok THEN @ \cup {"private-key", "certificate", "user"} ELSE @]
    /\ UNCHANGED <<envSpec, factory, toolset>>

\* RequestDBCredentials. Vault refuses; or it grants a lease and the answer is
\* lost on the way or lacks a field, an error that leaves the lease untracked;
\* or the lease is tracked.
RequestDBCredentials(c, answer) ==
    /\ credMgr' = [credMgr EXCEPT !.db = @ \ {c},
                                  !.leases = IF answer = "ok" THEN @ \cup {c} ELSE @]
    /\ vault' = [live |-> IF answer = "refused" THEN vault.live ELSE vault.live \cup {c},
                 unknown |-> IF answer = "lost" THEN vault.unknown \cup {c} ELSE vault.unknown]

\* requestVaultDBCredentials, one credential.
RequestDB(c, answer) ==
    /\ factory = "db" /\ c \in credMgr.db
    /\ RequestDBCredentials(c, answer)
    /\ env' = [env EXCEPT ![c] = IF answer = "ok" THEN @ \cup {"username", "password"} ELSE @]
    /\ UNCHANGED <<envSpec, factory, toolset>>

RequestsDone ==
    /\ \/ factory = "ssh" /\ credMgr.ssh = {} /\ factory' = "db"
       \/ factory = "db" /\ credMgr.db = {} /\ factory' = "registry"
    /\ UNCHANGED <<envSpec, env, credMgr, toolset, vault>>

HasUser(c) == {"user", "username"} \cap env[c] # {}

\* The type of the credential is not looked at, in any of the three.
buildSSHCredentials ==
    {c \in CredNames : /\ "host" \in env[c] /\ HasUser(c)
                       /\ {"private-key", "password"} \cap env[c] # {}}

buildSQLDatabases ==
    {c \in CredNames : {"driver", "host"} \subseteq env[c] /\ HasUser(c)}

\* Only the credential named github-pat; any key will do for want of "token".
buildHTTPCredentialMappings == {c \in CredNames : c = "github-pat" /\ env[c] # {}}

\* toolRegistryFactory, and the rest of the factory: the manager's Cleanup is
\* wired only when the registry could be built, and is dropped otherwise.
ToolRegistry(ok) ==
    /\ factory = "registry"
    /\ toolset' = IF ok THEN [ssh |-> buildSSHCredentials, sql |-> buildSQLDatabases,
                              http |-> buildHTTPCredentialMappings]
                        ELSE NoTools
    /\ factory' = IF ok THEN "ready" ELSE "error"
    /\ credMgr' = IF ok THEN credMgr ELSE NoManager
    /\ UNCHANGED <<envSpec, env, vault>>

-----------------------------------------------------------------------------
(* The run and its cleanup (module Runner has the ways it may end).        *)

RunEnds ==
    /\ factory = "ready" /\ factory' = "finished"
    /\ UNCHANGED <<envSpec, env, credMgr, toolset, vault>>

\* Mutant: the first failure ends the loop.
CleanupStops(failed) ==
    /\ factory = "finished" /\ factory' = "done"
    /\ vault' = [vault EXCEPT !.live = IF failed = {} THEN @ \ credMgr.leases ELSE @,
                              !.unknown = @ \cup failed]
    /\ credMgr' = [credMgr EXCEPT !.leases = {}, !.sshKeys = {}]
    /\ UNCHANGED <<envSpec, env, toolset>>

\* Cleanup: every tracked lease is revoked, the failed ones are reported, and
\* nothing is tracked afterwards. Without a manager there is none to call.
Cleanup(failed) ==
    /\ factory = "finished" /\ factory' = "done"
    /\ vault' = [live |-> vault.live \ (credMgr.leases \ failed),
                 unknown |-> vault.unknown \cup failed]
    /\ credMgr' = [credMgr EXCEPT !.leases = {}, !.sshKeys = {}]
    /\ UNCHANGED <<envSpec, env, toolset>>

CredNext ==
    \/ \E ok \in BOOLEAN, spec \in [CredNames -> CredSpecs] : ProviderFactory(ok, spec)
    \/ \E ok \in BOOLEAN : ResolveEnvironment(ok)
    \/ \E ok \in BOOLEAN : VaultLogin(ok)
    \/ \E c \in CredNames, ok \in BOOLEAN : RequestSSH(c, ok)
    \/ \E c \in CredNames, answer \in {"ok", "lost", "refused"} : RequestDB(c, answer)
    \/ RequestsDone
    \/ \E ok \in BOOLEAN : ToolRegistry(ok)
    \/ RunEnds
    \/ \E failed \in SUBSET credMgr.leases : Cleanup(failed)

CredSpec == CredInit /\ [][CredNext]_credVars

-----------------------------------------------------------------------------
(* Every lease Vault holds for the run is one the manager will revoke or   *)
(* one an error was logged for: an answer that was lost, or a failed       *)
(* revocation. Nothing is leaked silently by the order of the requests, by *)
(* a request that fails among others, or by one revocation that fails. The *)
(* exception is a registry that cannot be built: the factory then drops    *)
(* the manager and its leases run to their TTL.                            *)
LeasesAccountedFor ==
    factory # "error" => vault.live \subseteq credMgr.leases \cup vault.unknown

(* It is inductive together with the types.                                *)
CredInv == CredTypeOK /\ LeasesAccountedFor

(* requestVaultSSHCredentials: "The resulting credentials are injected     *)
(* back into the resolved environment's credential map so                  *)
(* buildSSHCredentials can pick them up as normal SSH credentials."        *)
InjectedReachTools ==
    factory = "ready" => credMgr.sshKeys \subseteq toolset.ssh

=============================================================================
