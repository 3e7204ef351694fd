---------------------------- MODULE GovernedOutput ----------------------------
(***************************************************************************)
(* What the program makes of the answers of a language provider.           *)
(*   GeminiProvider                              ai/gemini.py              *)
(*   the bounds of requests and answers          ai/contracts.py           *)
(*   GovernedExplanationService and its adapters modules/intelligence/     *)
(*   TechnicalDecompositionService.process       .../technical_fit.py      *)
(*   EntityCandidateResolver.apply               monitor/entity_candidates.py *)
(*   synthesize_signal_brief                     monitor/briefs.py         *)
(*   draft_governed_content         modules/communications/drafting.py     *)
(* A call reserves a receipt (AiBudget), asks, closes the receipt, reads    *)
(* the answer and is finished by whoever asked: the worker explains        *)
(* results, decomposes events, narrows candidates and writes briefs, and a *)
(* seller asks for a draft.  An answer may be anything.                    *)
(***************************************************************************)
EXTENDS Naturals, FiniteSets

CONSTANTS
  Callers,      \* threads of the worker and of the API
  Kinds,        \* the adapters at work: "account", "federal", "technical", "route"
  Findings,     \* [content, evidence, imported]: what a deterministic result may be
  Replies,      \* [sdk, closes, form, evidence, long, stated, names, proposed, ranked]
  Mentions,     \* contents of an observation
  MentionOf,    \* content -> [state, candidates]: the subject as it is normalised
  Generated,    \* generate_candidate_account_ids
  Reviewed,     \* the reviewed components of the event, names
  DraftEvidence, \* the evidence ids of the saved draft
  PublicEvidence, \* those of the event
  MaxEvidence,  \* 12
  MaxComponents, \* 32
  CooldownOf,   \* status -> time; 0 for none
  MaxAskings, MaxFound, MaxGovernedTime  \* bounds: calls, changes of results and drafts, the clock

\* What a result says tells whether it was imported; a mention is normalised in one way.
ASSUME GovernedAssumption ==
  /\ IsFiniteSet(Callers)
  /\ \A f, g \in Findings : f.imported /\ ~g.imported => f.content # g.content
  /\ \A f \in Findings : f.imported => f.content # "imported_route"
  /\ MentionOf = [m \in Mentions |-> MentionOf[m]]

VARIABLES
  finding,      \* kind -> the deterministic result of its subject
  explanation,  \* kind -> its row of governed_explanations
  proposals,    \* <<content, candidates>> -> its row of monitor_entity_candidate_resolutions
  entity,       \* content -> the subject of the event, as it is kept
  decomposed, written, drafted,  \* the last decomposition, brief and draft proposal
  draftVersion, \* of the saved draft
  hasProvider,  \* the provider is configured
  reserved,     \* receipts that are not closed
  caller,       \* thread -> its call
  ended,        \* what nobody caught: whose call, and which exception
  askings, found, governedTime

governedVars == <<finding, explanation, proposals, entity, decomposed, written, drafted, draftVersion,
                  hasProvider, reserved, caller, ended, askings, found, governedTime>>

NotKept == [kept |-> FALSE]
NoCall == [pc |-> "none"]

-----------------------------------------------------------------------------
\* What the SDK, and then the code around it, comes to.
Raises(class) == [is |-> class, status |-> "UNAVAILABLE"]
ProviderError(status) == [is |-> "LanguageProviderError", status |-> status]
Answers(value) == [is |-> "answer", status |-> "AVAILABLE", value |-> value]

\* The status under which a receipt is closed.
ReceiptStatus(reply) ==
  CASE reply.sdk \in {"text", "empty", "blocked"} -> "RESPONSE_RECEIVED"
    [] reply.sdk = "auth" -> "AUTH_FAILED"
    [] reply.sdk = "timeout" -> "TIMEOUT"
    [] reply.sdk = "quota" -> "PROVIDER_QUOTA"
    [] OTHER -> "FAILED"

\* What came of the SDK.
ResultOf(reply) ==
  CASE reply.sdk \in {"text", "empty", "blocked"} -> Answers(reply)
    [] reply.sdk = "auth" -> ProviderError("AUTH_FAILED")
    [] reply.sdk = "timeout" -> ProviderError("TIMEOUT")
    [] reply.sdk = "quota" -> ProviderError("QUOTA")
    [] reply.sdk = "error" -> ProviderError("UNAVAILABLE")
    [] OTHER -> Raises("Exception")

\* _generate_response: the receipt is closed in a finally clause, whose error takes precedence.
Response(reply) == IF reply.closes THEN ResultOf(reply) ELSE ProviderError("UNAVAILABLE")

\* _generate_text
TextOf(reply) ==
  IF Response(reply).is = "answer" /\ reply.sdk # "text" THEN ProviderError("UNAVAILABLE")
  ELSE Response(reply)

\* explain_governed_result, and the check of its caller.
ReadExplanation(request, text) ==
  IF text.form # "well" \/ text.long \/ ~(text.evidence \subseteq request.evidence)
    THEN Raises("ValueError") ELSE Answers([evidence |-> text.evidence])

\* propose_entity_candidate: a list in place of an id is not hashable.
ReadProposal(request, text) ==
  IF text.form = "types" THEN Raises("TypeError")
  ELSE IF text.form \in {"prose", "fields"} \/ ~(text.proposed \cup text.ranked \subseteq request.candidates)
    THEN Raises("ValueError")
  ELSE Answers([proposed |-> text.proposed, ranked |-> text.ranked])

\* _technical_result: a collection that is none raises TypeError.
ReadDecomposition(request, text) ==
  IF text.form = "types" THEN Raises("TypeError")
  ELSE IF \/ text.form # "well" \/ text.long
          \/ ~(text.evidence \subseteq request.evidence)
          \/ text.stated /\ text.evidence = {}
    THEN Raises("ValueError")
  ELSE Answers([names |-> text.names])

\* synthesize_business_brief
ReadBrief(request, text) ==
  IF text.form = "types" THEN Raises("TypeError")
  ELSE IF text.form # "well" \/ text.long \/ ~(text.evidence \subseteq request.evidence)
    THEN Raises("ValueError")
  ELSE Answers([evidence |-> text.evidence])

\* draft_governed_content of the provider.  It also allows the ids of public research, of
\* which the one request that is made of it, in api/communications.py, carries none.
ReadDraft(request, text) ==
  IF text.form # "well" \/ text.long \/ ~(text.evidence \subseteq request.evidence)
    THEN Raises("ValueError") ELSE Answers([evidence |-> text.evidence])

ReadAnswer(purpose, request, text) ==
  CASE purpose = "explanation" -> ReadExplanation(request, text)
    [] purpose = "candidate" -> ReadProposal(request, text)
    [] purpose = "technical" -> ReadDecomposition(request, text)
    [] purpose = "brief" -> ReadBrief(request, text)
    [] OTHER -> ReadDraft(request, text)

\* The exceptions that whoever asked is prepared for.
Catches(purpose) ==
  CASE purpose = "candidate" -> {"LanguageProviderError", "ValueError", "TypeError"}
    [] purpose = "brief" -> {"LanguageProviderError", "ValueError", "TypeError", "RuntimeError"}
    [] OTHER -> {"LanguageProviderError", "ValueError", "RuntimeError"}

-----------------------------------------------------------------------------
FirstOf(evidence) == {e \in evidence : Cardinality({x \in evidence : x < e}) < MaxEvidence}

\* customer_attractiveness_request cites the evidence of every factor.
AccountExplanation(result) == [content |-> result.content, evidence |-> result.evidence]

\* federal_opportunity_request cites the notice.
FederalExplanation(result) ==
  [content |-> result.content, evidence |-> {e \in result.evidence : \A x \in result.evidence : e <= x}]

\* technical_opportunity_request
TechnicalExplanation(result) == [content |-> result.content, evidence |-> FirstOf(result.evidence)]

\* relationship_path_request: nothing of an imported route leaves.
RouteExplanation(result) ==
  IF result.imported THEN [content |-> "imported_route", evidence |-> {}]
  ELSE [content |-> result.content, evidence |-> FirstOf(result.evidence)]

ExplanationRequest(kind) ==
  CASE kind = "account" -> AccountExplanation(finding[kind])
    [] kind = "federal" -> FederalExplanation(finding[kind])
    [] kind = "technical" -> TechnicalExplanation(finding[kind])
    [] OTHER -> RouteExplanation(finding[kind])

\* GovernedExplanationRequest.__post_init__
WithinBounds(request) == Cardinality(request.evidence) <= MaxEvidence

\* deterministic_fallback
FallbackExplanation(request) == [content |-> request.content, evidence |-> request.evidence, assisted |-> FALSE]

\* The row of this content (cache_key), if there is one.
IsCachedExplanation(kind, request) == explanation[kind].kept /\ explanation[kind].key = request

ExplanationIsReused(kind, request) ==
  /\ IsCachedExplanation(kind, request)
  /\ \/ explanation[kind].status \in {"AVAILABLE", "NOT_CONFIGURED"}
     \/ explanation[kind].retry > governedTime

\* save_governed_explanation: one row of a subject and type.
SaveExplanation(kind, request, shown, status) ==
  explanation' = [explanation EXCEPT ![kind] =
    [kept |-> TRUE, key |-> request, shown |-> shown, status |-> status,
     retry |-> IF CooldownOf[status] = 0 THEN 0 ELSE governedTime + CooldownOf[status]]]

-----------------------------------------------------------------------------
CallBegins(c, purpose, subject, request) ==
  caller' = [caller EXCEPT ![c] = [pc |-> "reserve", purpose |-> purpose, subject |-> subject, request |-> request]]

AnotherCall == askings < MaxAskings /\ askings' = askings + 1

CallEnds(c) == caller' = [caller EXCEPT ![c] = NoCall]

\* GovernedExplanationService.process, as far as its call.
BeginExplanation(c, kind) ==
  LET request == ExplanationRequest(kind)
  IN  /\ caller[c] = NoCall /\ AnotherCall
      /\ \/ /\ ~WithinBounds(request)
            /\ ended' = ended \cup {<<"request", "ValueError">>}
            /\ UNCHANGED <<explanation, caller>>
         \/ /\ WithinBounds(request) /\ ~ExplanationIsReused(kind, request)
            /\ \/ hasProvider /\ CallBegins(c, "explanation", kind, request) /\ UNCHANGED explanation
               \/ /\ ~hasProvider
                  /\ SaveExplanation(kind, request, FallbackExplanation(request), "NOT_CONFIGURED")
                  /\ UNCHANGED caller
            /\ UNCHANGED ended
      /\ UNCHANGED <<finding, proposals, entity, decomposed, written, drafted, draftVersion, hasProvider,
                     reserved, found, governedTime>>

\* EntityCandidateResolver.apply: the governed candidates, or those that share a name's token.
CandidatesOf(content) ==
  IF MentionOf[content].candidates # {} THEN MentionOf[content].candidates ELSE Generated

ProposalKey(content) == <<content, CandidatesOf(content)>>

\* What apply makes of a proposal.  The ranking is a list only when it is read back.
Narrowed(content, proposal, fromCache) ==
  CASE proposal.proposed # {} -> [state |-> "UNRESOLVED", candidates |-> proposal.proposed]
    [] proposal.proposed = {} /\ fromCache /\ Cardinality(proposal.ranked) > 1
         -> [state |-> "AMBIGUOUS", candidates |-> proposal.ranked]
    [] OTHER -> MentionOf[content]

BeginCandidate(c, content) ==
  /\ caller[c] = NoCall /\ AnotherCall
  /\ IF \/ MentionOf[content].state = "RESOLVED" \/ CandidatesOf(content) = {}
        \/ ~hasProvider /\ ~proposals[ProposalKey(content)].kept
       THEN entity' = [entity EXCEPT ![content] = MentionOf[content]] /\ UNCHANGED caller
       ELSE IF proposals[ProposalKey(content)].kept
         THEN /\ entity' = [entity EXCEPT ![content] =
                   Narrowed(content, proposals[ProposalKey(content)].proposal, TRUE)]
              /\ UNCHANGED caller
         ELSE /\ CallBegins(c, "candidate", content, [candidates |-> CandidatesOf(content)])
              /\ UNCHANGED entity
  /\ UNCHANGED <<finding, explanation, proposals, decomposed, written, drafted, draftVersion, hasProvider,
                 reserved, ended, found, governedTime>>

\* _reviewed_fallback: the reviewed components, if there are any.
ReviewedFallback(status) == [kept |-> TRUE, status |-> status, components |-> Reviewed]

\* TechnicalDecompositionService.process; EventBriefing says when it is asked and kept.
BeginTechnical(c) ==
  /\ caller[c] = NoCall /\ AnotherCall
  /\ IF hasProvider
       THEN CallBegins(c, "technical", "event", [evidence |-> PublicEvidence]) /\ UNCHANGED decomposed
       ELSE decomposed' = ReviewedFallback("NOT_CONFIGURED") /\ UNCHANGED caller
  /\ UNCHANGED <<finding, explanation, proposals, entity, written, drafted, draftVersion,
                 hasProvider, reserved, ended, found, governedTime>>

\* synthesize_signal_brief of an event with an evidence package.

BeginBrief(c) ==
  /\ caller[c] = NoCall /\ AnotherCall /\ hasProvider
  /\ CallBegins(c, "brief", "event", [evidence |-> PublicEvidence])
  /\ UNCHANGED <<finding, explanation, proposals, entity, decomposed, written, drafted, draftVersion,
                 hasProvider, reserved, ended, found, governedTime>>

\* assist: the draft as it is saved.
BeginDraft(c) ==
  /\ caller[c] = NoCall /\ AnotherCall
  /\ \/ /\ hasProvider
        /\ CallBegins(c, "draft", draftVersion, [evidence |-> DraftEvidence]) /\ UNCHANGED drafted
     \/ /\ ~hasProvider
        /\ drafted' = [kept |-> TRUE, version |-> draftVersion, evidence |-> DraftEvidence, assisted |-> FALSE]
        /\ UNCHANGED caller
  /\ UNCHANGED <<finding, explanation, proposals, entity, decomposed, written, draftVersion, hasProvider,
                 reserved, ended, found, governedTime>>

-----------------------------------------------------------------------------
\* The call has its answer, or what was raised in its place.
Answered(call, outcome, receipt) ==
  [pc |-> "answered", purpose |-> call.purpose, subject |-> call.subject, request |-> call.request,
   outcome |-> outcome, receipt |-> receipt]

\* ai_usage.reserve: AiBudget says when; it refuses, or the database does.
Reserve(c, admission) ==
  /\ caller[c].pc = "reserve"
  /\ caller' = [caller EXCEPT ![c] =
       CASE admission = "admitted" -> [@ EXCEPT !.pc = "asked"]
         [] admission = "exceeded" -> Answered(@, ProviderError("QUOTA"), "none")
         [] OTHER -> Answered(@, ProviderError("UNAVAILABLE"), "none")]
  /\ reserved' = IF admission = "admitted" THEN reserved + 1 ELSE reserved
  /\ UNCHANGED <<finding, explanation, proposals, entity, decomposed, written, drafted, draftVersion,
                 hasProvider, ended, askings, found, governedTime>>

\* The SDK returns or raises, the receipt is closed or stays reserved, and the text is read.
Ask(c, reply) ==
  /\ caller[c].pc = "asked"
  /\ LET text == TextOf(reply)
         outcome == IF text.is = "answer" THEN ReadAnswer(caller[c].purpose, caller[c].request, text.value) ELSE text
     IN  caller' = [caller EXCEPT ![c] =
           Answered(@, outcome, IF reply.closes THEN ReceiptStatus(reply) ELSE "RESERVED")]
  /\ reserved' = IF reply.closes THEN reserved - 1 ELSE reserved
  /\ UNCHANGED <<finding, explanation, proposals, entity, decomposed, written, drafted, draftVersion,
                 hasProvider, ended, askings, found, governedTime>>

\* Whoever asked goes on with the answer or falls back, or the exception is nobody's.
Finishes(c, purpose) == caller[c].pc = "answered" /\ caller[c].purpose = purpose

IsCaught(c) == caller[c].outcome.is \in {"answer"} \cup Catches(caller[c].purpose)

StatusOf(c) == caller[c].outcome.status

FinishExplanation(c) ==
  LET call == caller[c]
      shown == IF call.outcome.is = "answer"
                 THEN [content |-> "prose", evidence |-> call.outcome.value.evidence, assisted |-> TRUE]
                 ELSE FallbackExplanation(call.request)
  IN  /\ Finishes(c, "explanation") /\ IsCaught(c)
      /\ SaveExplanation(call.subject, call.request, shown, StatusOf(c))
      /\ CallEnds(c)
      /\ UNCHANGED <<finding, proposals, entity, decomposed, written, drafted, draftVersion, hasProvider,
                     reserved, ended, askings, found, governedTime>>

\* Only an answer is kept, and the event stays as it is without one.
FinishCandidate(c) ==
  LET content == caller[c].subject
  IN  /\ Finishes(c, "candidate") /\ IsCaught(c)
      /\ IF caller[c].outcome.is = "answer"
           THEN /\ proposals' = [proposals EXCEPT ![ProposalKey(content)] =
                     [kept |-> TRUE, proposal |-> caller[c].outcome.value]]
                /\ entity' = [entity EXCEPT ![content] = Narrowed(content, caller[c].outcome.value, FALSE)]
           ELSE entity' = [entity EXCEPT ![content] = MentionOf[content]] /\ UNCHANGED proposals
      /\ CallEnds(c)
      /\ UNCHANGED <<finding, explanation, decomposed, written, drafted, draftVersion, hasProvider,
                     reserved, ended, askings, found, governedTime>>

\* The provider's components are added to the reviewed ones; too many are nobody's exception.
FinishTechnical(c) ==
  LET answer == caller[c].outcome
      merged == Reviewed \cup answer.value.names
  IN  /\ Finishes(c, "technical") /\ IsCaught(c)
      /\ IF answer.is = "answer"
           THEN IF Cardinality(merged) > MaxComponents /\ Reviewed # {}
             THEN ended' = ended \cup {<<"merge", "ValueError">>} /\ UNCHANGED decomposed
             ELSE decomposed' = [kept |-> TRUE, status |-> "AVAILABLE", components |-> merged] /\ UNCHANGED ended
           ELSE decomposed' = ReviewedFallback(StatusOf(c)) /\ UNCHANGED ended
      /\ CallEnds(c)
      /\ UNCHANGED <<finding, explanation, proposals, entity, written, drafted, draftVersion, hasProvider,
                     reserved, askings, found, governedTime>>

\* An answer that cites nothing keeps the evidence of the deterministic brief.
FinishBrief(c) ==
  LET cited == caller[c].outcome.value.evidence
  IN  /\ Finishes(c, "brief") /\ IsCaught(c)
      /\ written' = IF caller[c].outcome.is = "answer"
                      THEN [kept |-> TRUE, assisted |-> TRUE, evidence |-> IF cited = {} THEN PublicEvidence ELSE cited]
                      ELSE [kept |-> TRUE, assisted |-> FALSE, evidence |-> PublicEvidence]
      /\ CallEnds(c)
      /\ UNCHANGED <<finding, explanation, proposals, entity, decomposed, drafted, draftVersion, hasProvider,
                     reserved, ended, askings, found, governedTime>>

\* A proposal is shown only of the draft as it still is; otherwise the request is refused.
FinishDraft(c) ==
  LET answer == caller[c].outcome
  IN  /\ Finishes(c, "draft") /\ IsCaught(c)
      /\ drafted' = IF caller[c].subject # draftVersion THEN drafted
                      ELSE [kept |-> TRUE, version |-> draftVersion, assisted |-> answer.is = "answer",
                            evidence |-> IF answer.is = "answer" THEN answer.value.evidence ELSE DraftEvidence]
      /\ CallEnds(c)
      /\ UNCHANGED <<finding, explanation, proposals, entity, decomposed, written, draftVersion, hasProvider,
                     reserved, ended, askings, found, governedTime>>

\* The exception ends the cycle of the worker, or the request.
FinishUncaught(c) ==
  /\ caller[c].pc = "answered" /\ ~IsCaught(c)
  /\ ended' = ended \cup {<<caller[c].purpose, caller[c].outcome.is>>}
  /\ CallEnds(c)
  /\ UNCHANGED <<finding, explanation, proposals, entity, decomposed, written, drafted, draftVersion,
                 hasProvider, reserved, askings, found, governedTime>>

\* A process dies; its receipt stays reserved until its lease is over.
CallerDies(c) ==
  /\ caller[c] # NoCall
  /\ CallEnds(c)
  /\ UNCHANGED <<finding, explanation, proposals, entity, decomposed, written, drafted, draftVersion,
                 hasProvider, reserved, ended, askings, found, governedTime>>

-----------------------------------------------------------------------------
\* Results change, drafts are saved, the provider gains or loses its key, and time passes.
FoundAnew(kind, result) ==
  /\ found < MaxFound /\ found' = found + 1
  /\ finding[kind] # result /\ finding' = [finding EXCEPT ![kind] = result]
  /\ UNCHANGED <<explanation, proposals, entity, decomposed, written, drafted, draftVersion, hasProvider,
                 reserved, caller, ended, askings, governedTime>>

DraftSaved ==
  /\ found < MaxFound /\ found' = found + 1
  /\ draftVersion' = draftVersion + 1
  /\ UNCHANGED <<finding, explanation, proposals, entity, decomposed, written, drafted, hasProvider,
                 reserved, caller, ended, askings, governedTime>>

ProviderConfigured ==
  /\ found < MaxFound /\ found' = found + 1
  /\ \A c \in Callers : caller[c] = NoCall
  /\ hasProvider' = ~hasProvider
  /\ UNCHANGED <<finding, explanation, proposals, entity, decomposed, written, drafted, draftVersion,
                 reserved, caller, ended, askings, governedTime>>

GovernedTick ==
  /\ governedTime < MaxGovernedTime /\ governedTime' = governedTime + 1
  /\ UNCHANGED <<finding, explanation, proposals, entity, decomposed, written, drafted, draftVersion,
                 hasProvider, reserved, caller, ended, askings, found>>

GovernedInit ==
  /\ finding \in [Kinds -> Findings]
  /\ explanation = [kind \in Kinds |-> NotKept]
  /\ proposals = [key \in {ProposalKey(content) : content \in Mentions} |-> NotKept]
  /\ entity = MentionOf
  /\ decomposed = NotKept /\ written = NotKept /\ drafted = NotKept
  /\ draftVersion = 1 /\ hasProvider \in BOOLEAN
  /\ reserved = 0 /\ caller = [c \in Callers |-> NoCall] /\ ended = {}
  /\ askings = 0 /\ found = 0 /\ governedTime = 1

GovernedNext ==
  \/ \E c \in Callers :
       \/ \E kind \in Kinds : BeginExplanation(c, kind)
       \/ \E content \in Mentions : BeginCandidate(c, content)
       \/ BeginTechnical(c) \/ BeginBrief(c) \/ BeginDraft(c)
       \/ \E admission \in {"admitted", "exceeded", "failed"} : Reserve(c, admission)
       \/ \E reply \in Replies : Ask(c, reply)
       \/ FinishExplanation(c) \/ FinishCandidate(c) \/ FinishTechnical(c) \/ FinishBrief(c)
       \/ FinishDraft(c) \/ FinishUncaught(c) \/ CallerDies(c)
  \/ \E kind \in Kinds, result \in Findings : FoundAnew(kind, result)
  \/ DraftSaved \/ ProviderConfigured \/ GovernedTick

GovernedSpec == GovernedInit /\ [][GovernedNext]_governedVars

-----------------------------------------------------------------------------
\* What is kept and shown rests on the request it was made for, and an imported route is in none;
\* an answer is used only when its receipt is closed, and receipts are open for as many calls as
\* are under way or were lost.
RestsOnItsRequest ==
  /\ \A kind \in Kinds : explanation[kind].kept =>
       /\ explanation[kind].shown.evidence \subseteq explanation[kind].key.evidence
       /\ explanation[kind].shown.assisted <=> explanation[kind].status = "AVAILABLE"
       /\ ~explanation[kind].shown.assisted => explanation[kind].shown.content = explanation[kind].key.content
       /\ \A result \in Findings : result.imported /\ kind = "route"
            => explanation[kind].key.content # result.content
  /\ \A content \in Mentions : entity[content].candidates \subseteq CandidatesOf(content)
  /\ written.kept => written.evidence \subseteq PublicEvidence
  /\ drafted.kept => drafted.evidence \subseteq DraftEvidence
  /\ \A c \in Callers : caller[c].pc = "answered" /\ caller[c].outcome.is = "answer"
                          => caller[c].receipt = "RESPONSE_RECEIVED"
  /\ Cardinality({c \in Callers : caller[c].pc = "asked"}) <= reserved

\* No answer makes an identity: a subject is resolved only if it was before the provider was asked.
ResolvesNobody ==
  \A content \in Mentions : entity[content].state = "RESOLVED" => MentionOf[content].state = "RESOLVED"

\* Nothing that a provider writes ends a request or a cycle, but for a decomposition with a
\* collection that is none, or with too many components beside the reviewed ones; apart from that
\* only exceptions the SDK is not known for, and a request that is out of bounds itself.
FallsBack ==
  \A e \in ended : e[2] = "Exception" \/ e \in {<<"technical", "TypeError">>, <<"merge", "ValueError">>, <<"request", "ValueError">>}

(* "Unsupported evidence, malformed structured output, or a response for the *)
(* wrong explanation contract is rejected and falls back safely", and so it  *)
(* is with the other uses of the provider.                                  *)
AnswersAreGoverned == RestsOnItsRequest /\ ResolvesNobody /\ FallsBack
=============================================================================
