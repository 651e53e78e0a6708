----------------------------- MODULE AiRequests -----------------------------
(***************************************************************************)
(* The AI requests of operators (support-sessions.service.ts: draft,       *)
(* greeting, summary; ai-chat.service.ts: sendMessage) against the         *)
(* policies of TenantPolicies.  A request is the list of awaits it has     *)
(* still to make: it reads the AI policy, waits up to 15 s for the model,  *)
(* reads the retention policy and stores what that lets it.  The usage log *)
(* is best effort, nothing here reads it, and it is left out.              *)
(***************************************************************************)
EXTENDS TenantPolicies

CONSTANTS
  Requests,   \* AI requests, each made once; the chat requests share a chat
  Purposes,   \* what each may be: "draft", "greeting", "summary", "chat"
  Selections, \* the providers a request may ask for, "none" for the default
  AiProvider, LocalRuntime, \* SUPPORTPLANE_AI_PROVIDER, SUPPORTPLANE_AI_LOCAL_RUNTIME
  Configured, \* local providers whose base URL is set
  Fallback    \* local providers that answer like the mock when their runtime fails

Features == {"draft", "greeting", "summary", "chat"}

\* populateDefaultAiProviders: the environment names at most two local ones.
Registered == {"mock"} \cup (Configured \cap {AiProvider, LocalRuntime})

ASSUME AiAssumption ==
  /\ Purposes \in [Requests -> SUBSET Features]
  /\ Selections \subseteq AiProviders \cup {"none"}
  /\ {AiProvider, LocalRuntime} \subseteq AiProviders
  /\ Fallback \subseteq Configured /\ Configured \subseteq {"ollama", "lmstudio"}
  /\ {"ai", "retention"} \subseteq Types

VARIABLES
  request,   \* of each AI request: feature, provider, the awaits to come, ...
  messages,  \* ai_chat_messages of the chat, oldest first
  kept,      \* how much of prompt and output of each request is stored
  summaries, \* requests whose summary text is in ticket_summaries
  permitted, \* history: requests the AI policy allowed at some moment so far
  keepable,  \* history: what could be kept at some moment since the answer
  unread     \* history: requests whose read of the retention policy failed

aiVars == <<request, messages, kept, summaries, permitted, keepable, unread>>

vars == <<policyVars, aiVars>>

-----------------------------------------------------------------------------
(* Data *)

\* Variant: the retention policy is read before the model is called.
StepsRetentionFirst(feature) ==
  CASE feature = "draft" -> <<"policy", "retention", "model", "audit">>
    [] feature = "summary" -> <<"policy", "retention", "model", "summary", "audit">>
    [] feature = "greeting" -> <<"retention", "model", "audit">>
    [] feature = "chat" -> <<"policy", "ask", "prompt", "retention", "model", "reply", "audit">>

\* Variant: the summary does not ask for the policy, like the greeting.
StepsSummaryUnchecked(feature) ==
  CASE feature = "draft" -> <<"policy", "model", "retention", "audit">>
    [] feature = "summary" -> <<"model", "summary", "retention", "audit">>
    [] feature = "greeting" -> <<"model", "retention", "audit">>
    [] feature = "chat" -> <<"policy", "ask", "prompt", "model", "retention", "reply", "audit">>

\* Variant: the chat is read before the question is saved.
StepsPromptFirst(feature) ==
  CASE feature = "draft" -> <<"policy", "model", "retention", "audit">>
    [] feature = "summary" -> <<"policy", "model", "summary", "retention", "audit">>
    [] feature = "greeting" -> <<"model", "retention", "audit">>
    [] feature = "chat" -> <<"policy", "prompt", "ask", "model", "retention", "reply", "audit">>

\* The awaits of each request, in the order of the code.
Steps(feature) ==
  CASE feature = "draft" -> <<"policy", "model", "retention", "audit">>
    [] feature = "summary" -> <<"policy", "model", "summary", "retention", "audit">>
    [] feature = "greeting" -> <<"model", "retention", "audit">>
    [] feature = "chat" -> <<"policy", "ask", "prompt", "model", "retention", "reply", "audit">>

Outcomes == {"none", "succeeded", "fallback_mock", "blocked_by_policy"}

\* shouldStoreAiOutput, shouldStoreAiPrompt, computeRetentionDecision.
KeptUnder(config) ==
  IF config.enabled THEN [prompt |-> config.prompt, output |-> config.output]
  ELSE [prompt |-> "full", output |-> "full"]

NothingKept == [prompt |-> "none", output |-> "none"]

KeepAll == [prompt |-> "full", output |-> "full"]

NotMade ==
  [feature |-> "none", provider |-> "none", left |-> <<>>, outcome |-> "none",
   decision |-> NothingKept, context |-> 0]

\* The configs a reader may find; without a row the code takes the defaults.
InForce(t) ==
  IF rows[t] = <<>> THEN {Default[t]} ELSE {rows[t][i].config : i \in DOMAIN rows[t]}

\* checkAiPolicy; only drafts have a switch that updateAiPolicy can turn.
Allows(config, feature, provider) ==
  /\ feature = "draft" => config.draft
  /\ provider = "none" \/ provider \in config.providers

PolicyAllows(feature, provider) ==
  \E config \in InForce("ai") : Allows(config, feature, provider)

Keepable == {KeptUnder(config) : config \in InForce("retention")}

Init ==
  /\ PolicyInit
  /\ request = [r \in Requests |-> NotMade]
  /\ messages = <<>>
  /\ kept = [r \in Requests |-> NothingKept]
  /\ summaries = {}
  /\ permitted = {}
  /\ keepable = [r \in Requests |-> {}]
  /\ unread = {}

-----------------------------------------------------------------------------
(* The awaits of a request *)

At(r, step) == request[r].left # <<>> /\ Head(request[r].left) = step

Done(r, req) == request' = [request EXCEPT ![r] = [req EXCEPT !.left = Tail(req.left)]]

Ended(r, outcome) ==
  request' = [request EXCEPT ![r].left = <<>>, ![r].outcome = outcome]

\* The request arrives; a provider may be asked for or left to the default.
StartRequest(r, feature, provider) ==
  /\ request[r].feature = "none"
  /\ request' = [request EXCEPT ![r].feature = feature, ![r].provider = provider,
                                ![r].left = Steps(feature)]
  /\ permitted' = IF PolicyAllows(feature, provider) THEN permitted \cup {r} ELSE permitted
  /\ UNCHANGED <<policyVars, messages, kept, summaries, keepable, unread>>

\* A refusal ends the request.
CheckPolicy(r) ==
  /\ At(r, "policy")
  /\ \E config \in InForce("ai") :
       IF Allows(config, request[r].feature, request[r].provider)
       THEN Done(r, request[r])
       ELSE Ended(r, "blocked_by_policy")
  /\ UNCHANGED <<policyVars, messages, kept, summaries, permitted, keepable, unread>>

AskChat(r) ==
  /\ At(r, "ask")
  /\ messages' = Append(messages, [role |-> "user", of |-> r])
  /\ Done(r, request[r])
  /\ UNCHANGED <<policyVars, kept, summaries, permitted, keepable, unread>>

\* All messages of the chat so far go to the model.
ReadChat(r) ==
  /\ At(r, "prompt")
  /\ Done(r, [request[r] EXCEPT !.context = Len(messages)])
  /\ UNCHANGED <<policyVars, messages, kept, summaries, permitted, keepable, unread>>

ProviderOf(r) == IF request[r].provider = "none" THEN "mock" ELSE request[r].provider

\* The local providers leave greetings to the mock, which never fails.
Local(r) == ProviderOf(r) # "mock" /\ request[r].feature # "greeting"

MockReplies == {"succeeded"}

\* A runtime that is slow, refuses or answers nothing has failed.
RuntimeReplies(provider) ==
  {"succeeded"} \cup (IF provider \in Fallback THEN {"fallback_mock"} ELSE {})

Replies(r) == IF Local(r) THEN RuntimeReplies(ProviderOf(r)) ELSE MockReplies

CallModel(r) ==
  /\ At(r, "model")
  /\ ProviderOf(r) \in Registered
  /\ \E outcome \in Replies(r) : Done(r, [request[r] EXCEPT !.outcome = outcome])
  /\ keepable' = [keepable EXCEPT ![r] = Keepable]
  /\ UNCHANGED <<policyVars, messages, kept, summaries, permitted, unread>>

\* "is not configured", or the runtime failed and may not fall back: 400.
ModelFails(r) ==
  /\ At(r, "model")
  /\ \/ ProviderOf(r) \notin Registered
     \/ Local(r) /\ ProviderOf(r) \notin Fallback
  /\ Ended(r, "none")
  /\ UNCHANGED <<policyVars, messages, kept, summaries, permitted, keepable, unread>>

\* ticketSummary.create, whatever the retention policy says; without a ticket
\* or a database nothing is stored and the request goes on.
StoreSummary(r) ==
  /\ At(r, "summary")
  /\ summaries' \in {summaries, summaries \cup {r}}
  /\ Done(r, request[r])
  /\ UNCHANGED <<policyVars, messages, kept, permitted, keepable, unread>>

ReadRetention(r) ==
  /\ At(r, "retention")
  /\ \E config \in InForce("retention") :
       Done(r, [request[r] EXCEPT !.decision = KeptUnder(config)])
  /\ UNCHANGED <<policyVars, messages, kept, summaries, permitted, keepable, unread>>

\* The read fails: sendMessage fails, the others go on as without a policy.
RetentionUnread(r) ==
  /\ At(r, "retention")
  /\ IF request[r].feature = "chat" THEN Ended(r, "none")
     ELSE Done(r, [request[r] EXCEPT !.decision = KeepAll])
  /\ unread' = unread \cup {r}
  /\ UNCHANGED <<policyVars, messages, kept, summaries, permitted, keepable>>

\* The assistant's message, its text redacted unless all of it may be kept.
StoreReply(r) ==
  /\ At(r, "reply")
  /\ messages' = Append(messages, [role |-> "assistant", of |-> r])
  /\ kept' = [kept EXCEPT ![r].output = request[r].decision.output]
  /\ Done(r, request[r])
  /\ UNCHANGED <<policyVars, summaries, permitted, keepable, unread>>

\* The audit event of a generation says what may be kept of prompt and
\* output; without any output there is no event.
AuditGeneration(r) ==
  /\ At(r, "audit")
  /\ kept' = IF request[r].feature = "chat" \/ request[r].decision.output = "none" THEN kept
             ELSE [kept EXCEPT ![r] = request[r].decision]
  /\ Done(r, request[r])
  /\ UNCHANGED <<policyVars, messages, summaries, permitted, keepable, unread>>

RequestStep(r) ==
  \/ CheckPolicy(r) \/ AskChat(r) \/ ReadChat(r) \/ CallModel(r) \/ ModelFails(r)
  \/ StoreSummary(r) \/ ReadRetention(r) \/ RetentionUnread(r)
  \/ StoreReply(r) \/ AuditGeneration(r)

Open(r) == request[r].left # <<>>

Answered(r) == request[r].outcome \in {"succeeded", "fallback_mock"}

\* A policy that is saved is one that open requests may read.
AdminStep ==
  /\ PolicyNext
  /\ UNCHANGED <<request, messages, kept, summaries, unread>>
  /\ permitted' = permitted \cup
       {r \in Requests : Open(r) /\ PolicyAllows(request[r].feature, request[r].provider)'}
  /\ keepable' = [r \in Requests |-> IF Open(r) /\ Answered(r) THEN keepable[r] \cup Keepable'
                                     ELSE keepable[r]]

Next ==
  \/ AdminStep
  \/ \E r \in Requests :
       \/ \E f \in Purposes[r], prov \in Selections : StartRequest(r, f, prov)
       \/ RequestStep(r)

Spec == Init /\ [][Next]_vars

-----------------------------------------------------------------------------
(* Properties *)

\* Rows, requests and stored results have their types.
TypeOK ==
  /\ PolicyTypeOK
  /\ \A r \in Requests :
       /\ request[r].feature \in Features \cup {"none"}
       /\ request[r].provider \in AiProviders \cup {"none"}
       /\ request[r].outcome \in Outcomes
       /\ request[r].decision \in [prompt : Modes, output : Modes]
       /\ request[r].context \in 0 .. Len(messages)
       /\ kept[r] \in [prompt : Modes, output : Modes]
       /\ keepable[r] \subseteq [prompt : Modes, output : Modes]
  /\ \A i \in DOMAIN messages :
       messages[i].role \in {"user", "assistant"} /\ messages[i].of \in Requests
  /\ summaries \subseteq Requests
  /\ permitted \subseteq Requests
  /\ unread \subseteq Requests

\* A model is called for a draft, a summary or a chat only when the AI policy
\* allowed that feature and provider at some moment since the request began,
\* whatever administrators save meanwhile (checkAiPolicy of both services).
GenerationWasAllowed ==
  \A r \in Requests : Answered(r) /\ request[r].feature # "greeting" => r \in permitted

\* The model takes up to 15 s, in which an administrator may forbid to keep
\* its answer: audit events and chat messages keep what the retention policy
\* allowed at some moment after the answer, never what it only allowed before
\* (unless the read failed).  Summary texts are outside this promise.
StoredAsRetained ==
  [][\A r \in Requests \ unread :
       /\ kept'[r].output # kept[r].output =>
            \E k \in keepable[r] : kept'[r].output = k.output
       /\ kept'[r].prompt # kept[r].prompt =>
            \E k \in keepable[r] : kept'[r].prompt = k.prompt]_vars

\* However the requests of a chat overlap, every answer follows its question
\* in the chat, and the model had seen that question (sendMessage).
AnswersSeeTheirQuestion ==
  \A j \in DOMAIN messages :
    messages[j].role = "assistant" =>
      \E i \in 1 .. j - 1 :
        /\ messages[i] = [role |-> "user", of |-> messages[j].of]
        /\ i <= request[messages[j].of].context

-----------------------------------------------------------------------------
(* What the documentation says of AI requests and the code does not keep *)

\* "Tenant AI policy enforced before every call".
PolicyBeforeEveryCall ==
  \A r \in Requests : Answered(r) => r \in permitted

\* "audit events for every generation": a finished draft has its event.
EveryGenerationAudited ==
  \A r \in Requests :
    Answered(r) /\ ~Open(r) => (request[r].feature = "chat" \/ kept[r].output # "none")

=============================================================================
