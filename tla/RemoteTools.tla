----------------------------- MODULE RemoteTools -----------------------------
(***************************************************************************)
(* The two tools that keep or open connections of their own.               *)
(*                                                                         *)
(*   src/internal/tools/ssh.go   ssh.exec: cached connections, one          *)
(*                               reconnect, a command raced by a timeout   *)
(*   src/internal/tools/sql.go   sql.query: one connection per query, rows *)
(*                               and bytes limited                         *)
(*                                                                         *)
(* The runner executes one tool call at a time, but a command that timed   *)
(* out may still be running on its host. A command is a sequence of words, *)
(* a query a kind and the number of rows it returns; the guardrails engine *)
(* has passed the call before (Runner.tla).                                *)
(***************************************************************************)
EXTENDS Integers, Sequences, FiniteSets

CONSTANTS
    SshHosts,       \* hosts with a credential
    SudoHosts,      \* those whose credential allows sudo
    SshCommands,    \* command lines, as sequences of words
    MaxRows,        \* of an SQL result
    MaxBytes,
    RowSizes        \* the sizes a formatted row may have

ASSUME ToolConstants ==
    SudoHosts \subseteq SshHosts /\ {MaxRows, MaxBytes} \cup RowSizes \subseteq Nat \ {0}

VARIABLES
    connections,    \* SSHTool.connections, and whether the peer is still there
    toolCall,       \* the call in progress
    stillRunning    \* hosts where a command outlived its call

toolVars == <<connections, toolCall, stillRunning>>

Rows == 0 .. MaxRows + 1

NoToolCall == [pc |-> "idle", host |-> "none", command |-> <<>>, retried |-> FALSE, ran |-> 0,
               left |-> 0, rowSize |-> 0, rows |-> 0, bytes |-> 0, truncated |-> FALSE, result |-> "none"]

Starts == 0 .. 1     \* how often a call has started its command

ToolCallRec == [pc : {"idle", "connect", "session", "running", "rows", "done"},
                host : SshHosts \cup {"none"}, command : SshCommands \cup {<<>>},
                retried : BOOLEAN, ran : Starts,
                left : Rows, rowSize : {0} \cup RowSizes, rows : Rows, bytes : Nat, truncated : BOOLEAN,
                result : {"none", "output", "error", "blocked", "timeout"}]

ToolTypeOK ==
    /\ connections \in [SshHosts -> {"none", "live", "stale"}]
    /\ toolCall \in ToolCallRec
    /\ stillRunning \subseteq SshHosts

ToolInit ==
    /\ connections = [h \in SshHosts |-> "none"]
    /\ toolCall = NoToolCall
    /\ stillRunning = {}

-----------------------------------------------------------------------------
(* ssh.exec.                                                               *)

blockedCommands == {"dd", "mkfs", "fdisk", "parted", "wipefs", "psql", "mysql", "mongo",
                    "mongosh", "redis-cli", "shred", "srm"}
SkippedWords == {"|", "&&", "||", ";", ">", ">>", "<", "sudo", "env", "nice", "nohup", "timeout"}
protectedPaths == {"/etc/shadow", "/etc/gshadow", "/boot/", "/dev/", "~/.ssh/id_*",
                   "~/.ssh/authorized_keys", "/root/.ssh/"}
writeOps == {"rm", "mv", "cp", "chmod", "chown", "truncate", ">", ">>", "tee"}

Words(cmd) == {cmd[i] : i \in DOMAIN cmd}

\* Only the first word that is neither an operator nor a prefix is looked up.
isBlockedCommand(cmd) ==
    \E i \in DOMAIN cmd : /\ cmd[i] \in blockedCommands
                          /\ \A j \in 1 .. i - 1 : cmd[j] \in SkippedWords

touchesProtectedPath(cmd) ==
    \E path \in Words(cmd) \cap protectedPaths :
        Words(cmd) \cap writeOps # {} \/ path \in {"/etc/shadow", "/etc/gshadow"}

\* ClassifyAction, as far as Execute uses it.
Blocked(h, cmd) ==
    \/ isBlockedCommand(cmd)
    \/ touchesProtectedPath(cmd)
    \/ "sudo" \in Words(cmd) /\ h \notin SudoHosts

\* Execute: the arguments and the classification.
ExecuteSSH(h, cmd) ==
    /\ toolCall.pc = "idle"
    /\ toolCall' = IF Blocked(h, cmd)
                   THEN [NoToolCall EXCEPT !.pc = "done", !.host = h, !.command = cmd, !.result = "blocked"]
                   ELSE [NoToolCall EXCEPT !.pc = "connect", !.host = h, !.command = cmd]
    /\ UNCHANGED <<connections, stillRunning>>

\* getConnection: the cached client, or a new one. Dialing may fail, as may the
\* credential's checks.
getConnection ==
    LET h == toolCall.host IN
    /\ toolCall.pc = "connect"
    /\ \/ /\ connections[h] # "none"
          /\ toolCall' = [toolCall EXCEPT !.pc = "session"]
          /\ UNCHANGED connections
       \/ /\ connections[h] = "none"
          /\ toolCall' = [toolCall EXCEPT !.pc = "session"]
          /\ connections' = [connections EXCEPT ![h] = "live"]
       \/ /\ connections[h] = "none"
          /\ toolCall' = [toolCall EXCEPT !.pc = "done", !.result = "error"]
          /\ UNCHANGED connections
    /\ UNCHANGED stillRunning

\* NewSession: the first failure drops the cached client, without closing it, and
\* connects again; the second is an error. Then the command is started.
NewSession(ok) ==
    LET h == toolCall.host IN
    /\ toolCall.pc = "session"
    /\ connections[h] = "stale" => ~ok
    /\ \/ /\ ok
          /\ toolCall' = [toolCall EXCEPT !.pc = "running", !.ran = @ + 1]
          /\ UNCHANGED connections
       \/ /\ ~ok /\ ~toolCall.retried
          /\ toolCall' = [toolCall EXCEPT !.pc = "connect", !.retried = TRUE]
          /\ connections' = [connections EXCEPT ![h] = "none"]
       \/ /\ ~ok /\ toolCall.retried
          /\ toolCall' = [toolCall EXCEPT !.pc = "done", !.result = "error"]
          /\ UNCHANGED connections
    /\ UNCHANGED stillRunning

\* Mutant: a command that ends in an error is tried on a new connection.
RunEndsRetried(ok) ==
    /\ toolCall.pc = "running"
    /\ toolCall' = IF ok \/ toolCall.retried THEN [toolCall EXCEPT !.pc = "done", !.result = "output"]
                   ELSE [toolCall EXCEPT !.pc = "connect", !.retried = TRUE]
    /\ connections' = [connections EXCEPT ![toolCall.host] =
                         IF ok \/ toolCall.retried THEN @ ELSE "none"]
    /\ UNCHANGED stillRunning

\* session.Run returns: a non-zero exit, or a connection lost on the way, is
\* output like any other.
SshRunEnds(ok) ==
    /\ toolCall.pc = "running" /\ ok \in BOOLEAN
    /\ toolCall' = [toolCall EXCEPT !.pc = "done", !.result = "output"]
    /\ UNCHANGED <<connections, stillRunning>>

\* ctx.Done: a SIGTERM is sent, nobody waits for its effect.
SshTimeout ==
    /\ toolCall.pc = "running"
    /\ toolCall' = [toolCall EXCEPT !.pc = "done", !.result = "timeout"]
    /\ stillRunning' = stillRunning \cup {toolCall.host}
    /\ UNCHANGED connections

OrphanEnds(h) ==
    /\ h \in stillRunning
    /\ stillRunning' = stillRunning \ {h}
    /\ UNCHANGED <<connections, toolCall>>

PeerGoesAway(h) ==
    /\ connections[h] = "live"
    /\ connections' = [connections EXCEPT ![h] = "stale"]
    /\ UNCHANGED <<toolCall, stillRunning>>

-----------------------------------------------------------------------------
(* sql.query.                                                              *)

QueryKinds == {"SELECT", "SHOW", "EXPLAIN", "CREATE INDEX", "INSERT", "DROP TABLE", "WITH"}

\* The tiers of classifySQLQuery: what no prefix list names is destructive.
classifySQLQuery(kind) ==
    CASE kind \in {"SELECT", "SHOW", "DESCRIBE", "DESC", "EXPLAIN", "\\D", "\\DT", "\\L"} -> "read"
      [] kind \in {"CREATE INDEX", "DROP INDEX", "ALTER INDEX", "CREATE VIEW", "DROP VIEW",
                   "ANALYZE", "VACUUM", "REINDEX", "GRANT", "REVOKE", "CREATE ROLE",
                   "ALTER ROLE", "SET "} -> "service-mutation"
      [] kind \in {"INSERT", "UPDATE", "DELETE", "MERGE", "UPSERT", "COPY", "LOAD DATA"} ->
           "data-mutation"
      [] OTHER -> "destructive-mutation"

\* Execute up to the query: a known database, only reads, one statement, in a
\* read-only transaction on a connection of its own, closed on return.
ExecuteSQL(kind, suspicious, n, size) ==
    /\ toolCall.pc = "idle"
    /\ \/ /\ classifySQLQuery(kind) # "read" \/ suspicious
          /\ toolCall' = [NoToolCall EXCEPT !.pc = "done", !.result = "blocked"]
       \/ /\ classifySQLQuery(kind) = "read" /\ ~suspicious
          /\ toolCall' = [NoToolCall EXCEPT !.pc = "rows", !.left = n, !.rowSize = size]
       \/ toolCall' = [NoToolCall EXCEPT !.pc = "done", !.result = "error"]
    /\ UNCHANGED <<connections, stillRunning>>

\* One round of formatSQLResults: rows.Next, then the limits, then the row; a row
\* that cannot be read fails the call.
formatSQLResults ==
    /\ toolCall.pc = "rows"
    /\ \/ toolCall' =
            IF toolCall.left = 0 THEN [toolCall EXCEPT !.pc = "done", !.result = "output"]
            ELSE IF toolCall.rows >= MaxRows \/ toolCall.bytes >= MaxBytes
            THEN [toolCall EXCEPT !.pc = "done", !.truncated = TRUE, !.result = "output"]
            ELSE [toolCall EXCEPT !.left = @ - 1, !.rows = @ + 1, !.bytes = @ + toolCall.rowSize]
       \/ toolCall' = [toolCall EXCEPT !.pc = "done", !.result = "error"]
    /\ UNCHANGED <<connections, stillRunning>>

ToolReturns ==
    /\ toolCall.pc = "done"
    /\ toolCall' = NoToolCall
    /\ UNCHANGED <<connections, stillRunning>>

ToolNext ==
    \/ \E h \in SshHosts, cmd \in SshCommands : ExecuteSSH(h, cmd)
    \/ getConnection
    \/ \E ok \in BOOLEAN : NewSession(ok)
    \/ \E ok \in BOOLEAN : SshRunEnds(ok)
    \/ SshTimeout
    \/ \E h \in SshHosts : OrphanEnds(h)
    \/ \E h \in SshHosts : PeerGoesAway(h)
    \/ \E kind \in QueryKinds, suspicious \in BOOLEAN, n \in Rows, size \in RowSizes :
            ExecuteSQL(kind, suspicious, n, size)
    \/ formatSQLResults
    \/ ToolReturns

ToolSpec == ToolInit /\ [][ToolNext]_toolVars

-----------------------------------------------------------------------------
(* The reconnect never repeats a command: a call that returns output or a  *)
(* timeout has started its command once, and one that returns an error or  *)
(* was blocked has not started it, so the model may safely retry those.    *)
CommandRunsOnce ==
    /\ toolCall.ran <= 1
    /\ toolCall.pc = "done" /\ toolCall.command # <<>> =>
         (toolCall.ran = 1) <=> (toolCall.result \in {"output", "timeout"})

(* A query's result is cut short exactly when it says so, at both limits,  *)
(* and what is shown exceeds the byte limit by less than one row.          *)
TruncationIsTold ==
    toolCall.pc = "done" /\ toolCall.command = <<>> /\ toolCall.result = "output" =>
        /\ toolCall.truncated <=> toolCall.left > 0
        /\ toolCall.rows <= MaxRows /\ toolCall.bytes < MaxBytes + toolCall.rowSize

\* What ssh.exec and sql.query return tells what happened on the host or in
\* the database: whether the command was started, whether rows are missing.
ResultTellsWhatRan == CommandRunsOnce /\ TruncationIsTold

(* What makes it so, at each point of a call: an ssh.exec call has no rows *)
(* and starts its command only on its way to "running", where no further   *)
(* attempt follows; an sql.query call has no command, and its rows and     *)
(* bytes pass a limit by at most the row that reached it.                  *)
ToolInv ==
    /\ ToolTypeOK
    /\ toolCall.pc \in {"connect", "session", "running"} =>
         /\ toolCall.host \in SshHosts
         /\ ~toolCall.truncated /\ toolCall.left = 0 /\ toolCall.rows = 0 /\ toolCall.bytes = 0
    /\ toolCall.pc \in {"connect", "session"} => toolCall.ran = 0
    /\ toolCall.pc = "running" => toolCall.ran = 1
    /\ toolCall.pc = "rows" =>
         /\ toolCall.command = <<>> /\ ~toolCall.truncated
         /\ toolCall.rows + toolCall.left <= MaxRows + 1 /\ toolCall.rows <= MaxRows
         /\ toolCall.bytes < MaxBytes + toolCall.rowSize
    /\ ResultTellsWhatRan

=============================================================================
