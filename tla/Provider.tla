------------------------------- MODULE Provider -------------------------------
(***************************************************************************)
(* The model providers: what goes over the wire in a tool conversation,    *)
(* and the retries.                                                        *)
(*                                                                         *)
(*   src/internal/provider/anthropic.go, openai.go, provider.go            *)
(*   src/internal/tools/tools.go   the registry's Definitions and Execute  *)
(*                                                                         *)
(* The runner (Runner.tla) keeps the conversation in its own messages; on  *)
(* every call the whole conversation is converted to the provider's form.  *)
(* A tool name is the sequence of its words and separators. The service    *)
(* (external) answers with text or with calls of tools it was told of.     *)
(***************************************************************************)
EXTENDS Integers, Sequences, FiniteSets, Filters

CONSTANTS
    ToolNames,      \* the names in the registry
    MaxRetries,     \* of one completion
    MaxTurns,       \* bound on the completions of a conversation
    MaxCalls,       \* bound on the tool calls of one answer
    KeepPairs       \* maxConversationPairs, 4 in the runner

ASSUME ProviderConstants ==
    /\ ToolNames \subseteq Seq(STRING)
    /\ {MaxRetries, MaxTurns, MaxCalls, KeepPairs} \subseteq Nat

VARIABLES
    chat            \* the provider, the conversation and the request in flight

providerVars == chat

Kinds == {"anthropic", "openai"}
Call(id, name) == [id |-> id, name |-> name]

\* Messages of the runner: an assistant's with its calls, a user's with results.
UserText == [role |-> "user", calls |-> <<>>, results |-> <<>>]

NoChat == [kind |-> "none", pc |-> "idle", messages |-> <<>>, attempt |-> 0,
           turn |-> 0, lookups |-> {}]

ProviderInit == chat = NoChat

Ids(calls) == [c \in DOMAIN calls |-> calls[c].id]

-----------------------------------------------------------------------------
(* Names.                                                                  *)

Replace(name, from, to) == [i \in DOMAIN name |-> IF name[i] = from THEN to ELSE name[i]]

sanitizeToolName(name) == Replace(name, ".", "_")
unsanitizeToolName(name) == Replace(name, "_", ".")

\* What a call's name can be when it comes back.
Received == {unsanitizeToolName(sanitizeToolName(n)) : n \in ToolNames}
CallId == Nat \X Nat
Message == [role : {"user", "assistant"}, calls : Seq([id : CallId, name : Received]),
            results : Seq(CallId)]

ProviderTypeOK ==
    chat \in [kind : Kinds \cup {"none"}, pc : {"idle", "send", "tools", "done", "error"},
              messages : Seq(Message), attempt : 0 .. MaxRetries, turn : 0 .. MaxTurns,
              lookups : SUBSET Received]

-----------------------------------------------------------------------------
(* Messages on the wire.                                                   *)

\* Anthropic: one message each. The calls' names are sent as they are.
toAnthropicMessage(m) == << [role |-> m.role, calls |-> m.calls, results |-> m.results] >>

\* Mutant: only the first of several results becomes a message.
toOpenAIFirst(m) ==
    IF m.role = "user" /\ m.results # <<>>
    THEN << [role |-> "tool", calls |-> <<>>, results |-> <<m.results[1]>>] >>
    ELSE << [role |-> m.role, calls |-> m.calls, results |-> <<>>] >>

\* OpenAI: every result is a message of its own, the calls' names are sanitized.
toOpenAIMessages(m) ==
    IF m.role = "user" /\ m.results # <<>>
    THEN [i \in DOMAIN m.results |->
            [role |-> "tool", calls |-> <<>>, results |-> <<m.results[i]>>]]
    ELSE << [role |-> m.role, results |-> <<>>,
             calls |-> [i \in DOMAIN m.calls |->
                          Call(m.calls[i].id, sanitizeToolName(m.calls[i].name))]] >>

toWire(m) == IF chat.kind = "openai" THEN toOpenAIMessages(m) ELSE toAnthropicMessage(m)

\* buildRequest: the conversation and the declared tools, names sanitized.
buildRequest ==
    [messages |-> Joined([i \in 1 .. Len(chat.messages) |-> toWire(chat.messages[i])]),
     tools |-> {sanitizeToolName(n) : n \in ToolNames}]

-----------------------------------------------------------------------------
(* A completion.                                                           *)

\* NewProvider; the conversation starts with the prompt.
NewProvider(kind) ==
    /\ chat.pc = "idle"
    /\ chat' = [NoChat EXCEPT !.kind = kind, !.pc = "send", !.messages = <<UserText>>]

CanRetry == chat.attempt < MaxRetries

\* One round of doWithRetry: no connection, 429 and 5xx are tried again after a
\* pause, during which the run may be cancelled; anything else is an error.
doWithRetry(answer) ==
    /\ chat.pc = "send" /\ answer \in {"none", "429", "5xx", "4xx", "cancelled"}
    /\ chat' = IF answer \in {"none", "429", "5xx"} /\ CanRetry
               THEN [chat EXCEPT !.attempt = @ + 1]
               ELSE [chat EXCEPT !.pc = "error"]

\* A 200: parseResponse. The calls name declared tools; ids are fresh. The runner
\* appends the assistant's message and looks every call up in the registry.
parseResponse(names) ==
    LET calls == [i \in DOMAIN names |-> Call(<<chat.turn, i>>, unsanitizeToolName(names[i]))]
    IN /\ chat.pc = "send" /\ chat.turn < MaxTurns
       /\ \A i \in DOMAIN names : names[i] \in buildRequest.tools
       /\ chat' = [chat EXCEPT !.pc = IF calls = <<>> THEN "done" ELSE "tools",
                               !.turn = @ + 1, !.attempt = 0,
                               !.messages = Append(@, [role |-> "assistant", calls |-> calls,
                                                       results |-> <<>>]),
                               !.lookups = {calls[i].name : i \in DOMAIN calls}]

\* The first message, and the last exchanges.
pruneConversation(messages) ==
    IF Len(messages) <= 2 * KeepPairs + 1 THEN messages
    ELSE <<messages[1]>> \o SubSeq(messages, Len(messages) - 2 * KeepPairs + 1, Len(messages))

\* The runner's answer: one result for every call, whatever came of it; then the
\* conversation is pruned.
ToolResults ==
    LET last == chat.messages[Len(chat.messages)]
    IN /\ chat.pc = "tools"
       /\ chat' = [chat EXCEPT !.pc = "send", !.lookups = {},
                     !.messages = pruneConversation(Append(@,
                       [role |-> "user", calls |-> <<>>,
                        results |-> Ids(last.calls)]))]

ChatEnds ==
    /\ chat.pc \in {"done", "error"}
    /\ chat' = NoChat

ProviderNext ==
    \/ \E kind \in Kinds : NewProvider(kind)
    \/ \E answer \in {"none", "429", "5xx", "4xx", "cancelled"} : doWithRetry(answer)
    \/ \E n \in 0 .. MaxCalls : \E names \in [1 .. n -> {sanitizeToolName(m) : m \in ToolNames}] :
            parseResponse(names)
    \/ ToolResults
    \/ ChatEnds

ProviderSpec == ProviderInit /\ [][ProviderNext]_providerVars

-----------------------------------------------------------------------------
\* e is the last message before the next assistant's, or the last one.
LastAnswer(wire, i, e) ==
    /\ \A j \in (i + 1) .. e : wire[j].role # "assistant"
    /\ e < Len(wire) => wire[e + 1].role = "assistant"

Answers(wire, i, e) == Joined([j \in 1 .. (e - i) |-> wire[i + j].results])

(* Every call is answered on the wire: in the request of either provider,  *)
(* the calls of an assistant's message are answered by the messages up to  *)
(* the next assistant's, each once and in their order, and no result       *)
(* stands there without its call. A service refuses a conversation in      *)
(* which one is missing, so a lost or doubled result would end the run.    *)
Paired(wire) ==
    /\ wire # <<>> /\ wire[1].results = <<>>
    /\ \A i \in DOMAIN wire : \A e \in i .. Len(wire) :
         wire[i].role = "assistant" /\ LastAnswer(wire, i, e)
           => Answers(wire, i, e) = Ids(wire[i].calls)

WirePaired == chat.pc = "send" => Paired(buildRequest.messages)

(* A call of a declared tool is looked up under the name the tool is       *)
(* registered with, for every name without an underscore of its own:       *)
(* unsanitizeToolName undoes sanitizeToolName for those, and for no other  *)
(* (a2a.check_tasks comes back as a2a.check.tasks), and the two providers  *)
(* agree on what they look up.                                             *)
CallsFindTheirTool ==
    \A name \in chat.lookups :
        \/ name \in ToolNames
        \/ \E tool \in ToolNames : /\ \E i \in DOMAIN tool : tool[i] = "_"
                                  /\ name = [i \in DOMAIN tool |->
                                               IF tool[i] = "_" THEN "." ELSE tool[i]]

\* The conversation survives the way to the service and back.
ConversationSurvives == WirePaired /\ CallsFindTheirTool

\* A conversation of whole exchanges: the prompt, then an assistant's message
\* with calls and the user's message with their results, in turns.
Asks(m) == m.role = "assistant" /\ m.calls # <<>> /\ m.results = <<>>
Answering(m, asked) == m.role = "user" /\ m.calls = <<>> /\ m.results = Ids(asked.calls)

Exchanges(messages, n) ==
    /\ n \in DOMAIN messages /\ n % 2 = 1
    /\ messages[1] = UserText
    /\ \A i \in 2 .. n : IF i % 2 = 0 THEN Asks(messages[i])
                         ELSE Answering(messages[i], messages[i - 1])

(* Between two steps of a run the conversation holds whole exchanges, also *)
(* after it was pruned, and while tools run one question more.             *)
ProviderInv ==
    /\ ProviderTypeOK
    /\ chat.pc = "send" => Exchanges(chat.messages, Len(chat.messages))
    /\ chat.pc = "tools" => /\ Exchanges(chat.messages, Len(chat.messages) - 1)
                            /\ Asks(chat.messages[Len(chat.messages)])
    /\ ConversationSurvives

=============================================================================
