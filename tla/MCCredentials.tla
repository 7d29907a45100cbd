---------------------------- MODULE MCCredentials ----------------------------
(***************************************************************************)
(* Credential specs as the environments of the repository have them.       *)
(***************************************************************************)
EXTENDS Credentials

Credential(type, keys) == [type |-> type, secretKeys |-> keys]

MCCredSpecs == {Credential("secret", {"host", "user", "private-key"}),
                Credential("secret", {"driver", "host", "username", "password"}),
                Credential("secret", {"token"}),
                Credential("vault-ssh-ca", {}),
                Credential("vault-database", {"driver", "host"}),
                Credential("vault-kv", {})}

=============================================================================
