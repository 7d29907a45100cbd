------------------------------ MODULE TokenCache ------------------------------
(***************************************************************************)
(* The command line's login and its token file.                            *)
(*                                                                         *)
(*   src/cmd/legator/login.go        the device login, saveTokenCache      *)
(*   src/cmd/legator/api_client.go   tryAPIClient, refreshCachedToken      *)
(*                                                                         *)
(* Several commands run at once in one home directory; nothing locks the   *)
(* file, and os.WriteFile empties it before it writes. The provider        *)
(* (external) rotates refresh tokens: a refresh invalidates the token it   *)
(* was asked with. A refresh token is a number, 0 is none; an access token *)
(* carries the number of the refresh token it came with.                   *)
(***************************************************************************)
EXTENDS Integers, FiniteSets

CONSTANTS
    Commands,        \* invocations of the command line
    MaxTokens,       \* bound on the tokens the provider issues
    DeviceLifetime   \* expires_in of a device code, in polls

ASSUME TokenConstants == MaxTokens \in Nat \ {0} /\ DeviceLifetime \in Nat \ {0}

VARIABLES
    file,            \* ~/.config/legator/token.json
    command,         \* each invocation
    issued,          \* the provider: tokens issued so far ...
    usable,          \* ... and the refresh tokens it still accepts
    saveFailed       \* a refreshed token could not be saved

tokenVars == <<file, command, issued, usable, saveFailed>>

Tokens == 0 .. MaxTokens
Polls == 0 .. DeviceLifetime
NoFile == [state |-> "absent", refresh |-> 0, expired |-> FALSE]

FileRec == [state : {"absent", "empty", "written"}, refresh : Tokens, expired : BOOLEAN]

CommandPcs == {"idle", "poll", "refresh", "truncate", "write", "ready", "kube", "failed"}

\* refresh: the token the command holds.
CommandRec == [pc : CommandPcs, refresh : Tokens, polls : Polls]

TokenTypeOK ==
    /\ file \in FileRec
    /\ command \in [Commands -> CommandRec]
    /\ issued \in Tokens
    /\ usable \subseteq 1 .. MaxTokens
    /\ saveFailed \in BOOLEAN

TokenInit ==
    /\ file = NoFile
    /\ command = [c \in Commands |-> [pc |-> "idle", refresh |-> 0, polls |-> 0]]
    /\ issued = 0 /\ usable = {} /\ saveFailed = FALSE

Goto(c, pc) == [command EXCEPT ![c].pc = pc]

\* The command goes on with a token.
Holds(c, pc, token) == [command EXCEPT ![c] = [@ EXCEPT !.pc = pc, !.refresh = token]]

-----------------------------------------------------------------------------
(* legator login.                                                          *)

\* Discovery and the device code; each failure ends the command.
requestDeviceCode(c) ==
    /\ command[c].pc = "idle"
    /\ \/ command' = [command EXCEPT ![c] = [@ EXCEPT !.pc = "poll", !.polls = DeviceLifetime]]
       \/ command' = Goto(c, "failed")
    /\ UNCHANGED <<file, issued, usable, saveFailed>>

\* One round of the loop: the deadline, the request, its answer. "slow_down"
\* only lengthens the sleep.
pollDeviceToken(c) ==
    /\ command[c].pc = "poll"
    /\ \/ /\ command[c].polls = 0
          /\ command' = Goto(c, "failed") /\ UNCHANGED <<issued, usable>>
       \/ /\ command[c].polls > 0    \* authorization_pending, slow_down
          /\ command' = [command EXCEPT ![c].polls = @ - 1] /\ UNCHANGED <<issued, usable>>
       \/ /\ command[c].polls > 0    \* any other error
          /\ command' = Goto(c, "failed") /\ UNCHANGED <<issued, usable>>
       \/ /\ command[c].polls > 0 /\ issued < MaxTokens
          /\ issued' = issued + 1 /\ usable' = usable \cup {issued + 1}
          /\ command' = Holds(c, "truncate", issued + 1)
    /\ UNCHANGED <<file, saveFailed>>

-----------------------------------------------------------------------------
(* Every other command.                                                    *)

\* tryAPIClient: no file means the Kubernetes API is used instead, a file that
\* does not parse is an error; a token with less than 30 seconds left is
\* refreshed.
tryAPIClient(c) ==
    /\ command[c].pc = "idle"
    /\ \/ file.state = "absent" /\ command' = Holds(c, "kube", file.refresh)
       \/ file.state = "empty" /\ command' = Holds(c, "failed", file.refresh)
       \/ /\ file.state = "written"
          /\ command' = Holds(c, IF file.expired THEN "refresh" ELSE "ready", file.refresh)
    /\ UNCHANGED <<file, issued, usable, saveFailed>>

\* Mutant: the refresh token of the answer is not kept.
refreshKeepsOld(c) ==
    /\ command[c].pc = "refresh"
    /\ command[c].refresh \in usable /\ issued < MaxTokens
    /\ issued' = issued + 1
    /\ usable' = (usable \ {command[c].refresh}) \cup {issued + 1}
    /\ command' = Goto(c, "truncate")
    /\ UNCHANGED <<file, saveFailed>>

\* refreshCachedToken up to its save, requestRefreshToken. (A provider that does
\* not rotate sends no refresh token and the old one is kept: there is then
\* nothing to lose, and it is left out.)
refreshCachedToken(c) ==
    /\ command[c].pc = "refresh"
    /\ \/ /\ command[c].refresh \in usable /\ issued < MaxTokens
          /\ issued' = issued + 1
          /\ usable' = (usable \ {command[c].refresh}) \cup {issued + 1}
          /\ command' = Holds(c, "truncate", issued + 1)
       \/ /\ command' = Goto(c, "failed") /\ UNCHANGED <<issued, usable>>
    /\ UNCHANGED <<file, saveFailed>>

\* saveTokenCache: it may fail before it touches the file, or after emptying it.
saveTokenCache(c) ==
    /\ command[c].pc \in {"truncate", "write"}
    /\ \/ /\ command[c].pc = "truncate"
          /\ file' = [state |-> "empty", refresh |-> 0, expired |-> FALSE]
          /\ command' = Goto(c, "write") /\ UNCHANGED saveFailed
       \/ /\ command[c].pc = "write"
          /\ file' = [state |-> "written", refresh |-> command[c].refresh, expired |-> FALSE]
          /\ command' = Goto(c, "ready") /\ UNCHANGED saveFailed
       \/ /\ command' = Goto(c, "failed") /\ saveFailed' = TRUE /\ UNCHANGED file
    /\ UNCHANGED <<issued, usable>>

CommandEnds(c) ==
    /\ command[c].pc \in {"ready", "kube", "failed"}
    /\ command' = [command EXCEPT ![c] = [pc |-> "idle", refresh |-> 0, polls |-> 0]]
    /\ UNCHANGED <<file, issued, usable, saveFailed>>

TokenExpires ==
    /\ file.state = "written" /\ ~file.expired
    /\ file' = [file EXCEPT !.expired = TRUE]
    /\ UNCHANGED <<command, issued, usable, saveFailed>>

TokenNext ==
    \/ \E c \in Commands : requestDeviceCode(c)
    \/ \E c \in Commands : pollDeviceToken(c)
    \/ \E c \in Commands : tryAPIClient(c)
    \/ \E c \in Commands : refreshCachedToken(c)
    \/ \E c \in Commands : saveTokenCache(c)
    \/ \E c \in Commands : CommandEnds(c)
    \/ TokenExpires

TokenSpec == TokenInit /\ [][TokenNext]_tokenVars

-----------------------------------------------------------------------------
(* Unless a save failed, concurrent refreshes and logins never strand the  *)
(* user: the refresh token in the file is one the provider still accepts,  *)
(* or a command that holds such a token is about to write it, or the file  *)
(* is about to be rewritten by whoever emptied it.                         *)
RefreshTokenNotLost ==
    file.state = "written" /\ file.refresh \notin usable /\ ~saveFailed =>
        \E c \in Commands : /\ command[c].pc \in {"truncate", "write"}
                            /\ command[c].refresh \in usable

(* Why it is not lost: a token that is being saved is accepted, and nobody *)
(* else has it yet, neither the file nor another command, so that no other *)
(* command can use it up.                                                  *)
TokenInv ==
    /\ TokenTypeOK
    /\ usable \subseteq 1 .. issued /\ file.refresh <= issued
    /\ \A c \in Commands : command[c].refresh <= issued
    /\ \A c \in Commands : command[c].pc \in {"truncate", "write"} =>
         /\ command[c].refresh \in usable
         /\ command[c].refresh # file.refresh
         /\ \A d \in Commands \ {c} : command[d].refresh # command[c].refresh
    /\ RefreshTokenNotLost

=============================================================================
