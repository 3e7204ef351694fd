------------------------------ MODULE OmniAnswer ------------------------------
(***************************************************************************)
(* One question to Omni, from the request to the recorded answer.          *)
(*   omni                                 api/omni.py                       *)
(*   OmniService.answer and its checks    modules/assistant/service.py      *)
(*   CommercialToolSession.run, read      .../commercial_tools.py           *)
(*   synthesis_rejection                  .../grounding.py                  *)
(*   should_research_public_web           .../public_research.py            *)
(*   the selections that are looked up again  .../market_context.py,        *)
(*                                            .../relationship_context.py   *)
(* The deterministic answer (OmniRouting) is extended by what is selected,  *)
(* by records that the model asks for, and by public findings; the model    *)
(* then words it, and its words are shown when two checks let them pass.   *)
(* The checks look at figures, at some phrases and at how the assessment    *)
(* is told: what else the words say, made up or not, is shown.             *)
(* The environment and the assessments are those of the beginning of the    *)
(* request; market series, passages and memories are read on the way.      *)
(* A fact is a pair: its kind, and what it is of.                           *)
(***************************************************************************)
EXTENDS Naturals, FiniteSets

CONSTANTS
  Organizations,   \* accounts of the environment
  Ledgers,         \* those with a commercial ledger
  OmniQuestions,   \* sets of the traits below
  Faults,          \* what may be wrong with the words of a model
  Statuses,        \* of a failure of the provider
  MaxReads,        \* 4
  MaxRevision      \* bound on the revisions of what can be selected

VARIABLES
  revision,        \* of each kind of selection, the current one
  turn,            \* the request
  omniRun          \* its row of omni_runs

answerVars == <<revision, turn, omniRun>>

Nobody == "nobody"
NoTurn == [pc |-> "none"]
Selectable == {"pursuit", "federal", "market", "route"}
NoSelection == [what |-> "nothing", revision |-> 0]

\* The assessment that an answer tells: whether it has a score, and an action.
NotTold == [told |-> FALSE, scored |-> FALSE, acts |-> FALSE]
Tellings == {NotTold} \cup [told : {TRUE}, scored : BOOLEAN, acts : BOOLEAN]

OmniRequest(asks, organization, selected, configured) ==
  [asks |-> asks, organization |-> organization, selected |-> selected, configured |-> configured]

-----------------------------------------------------------------------------
\* The words of a question.

\* _operational_contract: questions that are answered with what was not done.
Contracts == {"outbound", "keep_or_score", "conversion", "general_mention", "assumed_certificate"}
UnderContract(asks) == asks \cap Contracts # {}

\* should_research_public_web
Researches(asks, hasPassages) ==
  /\ "stored_only" \notin asks
  /\ "search" \in asks \/ {"assumed_certificate", "general_mention"} \cap asks = {}
  /\ hasPassages => {"search", "latest"} \cap asks # {}
  /\ "internal" \notin asks
  /\ {"search", "latest", "public_topic"} \cap asks # {}

\* should_apply_relationship_selection
AppliesRoute(asks) == "portfolio" \notin asks /\ "route" \in asks

-----------------------------------------------------------------------------
\* An answer: whom it is about, its facts, notices, action, and who worded it.
AnswerOn(about, facts, action) ==
  [about |-> about, facts |-> facts, notices |-> {}, missing |-> {}, action |-> action,
   by |-> "deterministic", fault |-> "none", status |-> "NOT_CONFIGURED", boundary |-> FALSE]

\* Deterministic answers are as the routing has them; what they are about is a fact of theirs.
RoutedFacts(about, told) ==
  (IF about = Nobody THEN {} ELSE {<<"account", about>>})
    \cup (IF told.told THEN {<<"assessment", about>>} ELSE {})

\* _apply_operational_contract
WithContract(asks, answer) ==
  IF UnderContract(asks) THEN [answer EXCEPT !.boundary = TRUE, !.action = "contract"] ELSE answer

\* The exception handlers around a call of the provider: its status, or UNAVAILABLE.
Deterministic(answer, status) == [answer EXCEPT !.status = status]

\* The words of the model in place of the text, after the notices that it has to keep.
\* What they say without a figure is nobody's fact.
Worded(answer, prose, notices) ==
  [answer EXCEPT !.facts = IF prose.figure THEN {prose.states} ELSE {}, !.by = "model", !.fault = prose.fault,
                 !.notices = notices, !.status = "AVAILABLE"]

\* Mutant: what is private is part of what the figures of the model are compared with.
AllowsPreferences(t) ==
  t.answer.facts \cup t.facts \cup t.findings
    \cup (IF UnderContract(t.request.asks) THEN {<<"boundary", "contract">>} ELSE {})
    \cup {<<"preference", a>> : a \in t.preferences}

\* The text that the figures of the model are compared with: the governed answer as it was
\* extended, and the extracts of the findings; neither preferences nor earlier turns.
Grounds(t) ==
  t.answer.facts \cup t.facts \cup t.findings
    \cup (IF UnderContract(t.request.asks) THEN {<<"boundary", "contract">>} ELSE {})

\* A number of the words has to be one of the text; words without a number have not.
Unsupported(prose, grounds) == prose.figure /\ prose.states \notin grounds

\* synthesis_rejection
SynthesisRejected(t, prose) ==
  \/ prose.fault \in {"empty", "execution", "mislabels"}
  \/ prose.fault = "promises" /\ t.constrained
  \/ Unsupported(prose, Grounds(t))

\* _assessment_synthesis_rejection
AssessmentRejected(t, prose) ==
  /\ t.told.told
  /\ \/ prose.fault = "drops_score" /\ t.told.scored
     \/ prose.fault = "drops_action" /\ t.told.acts
     \/ prose.fault = "prescribes" /\ ~t.told.acts
     \/ prose.fault = "internal_identifier"

\* Everything a model may come to state.
Statements ==
  {<<kind, a>> : kind \in {"account", "assessment", "record", "public", "preference"}, a \in Organizations}
    \cup {<<kind, r>> : kind \in Selectable, r \in 1..MaxRevision}
    \cup {<<"identifier", "asked_for">>, <<"boundary", "contract">>, <<"nothing", "made_up">>}
\* It states it with a figure or without one.  (The figures of two statements differ: one that is
\* that of another by chance is not told from it.)
Proses == [states : Statements, figure : BOOLEAN, fault : Faults]

-----------------------------------------------------------------------------
\* interpret of the provider: an intent, and whether it comes with the name of an account.
Interpretation == BOOLEAN

\* selected_market_context, against the vintage that is there; selected_relationship_context and
\* selected_opportunity, against the environment of the request.
MarketIsCurrent(t) == t.request.selected.revision = revision["market"]
RouteIsCurrent(t, source) ==
  t.request.selected.revision = t.began["route"] /\ t.request.organization \in {source, Nobody}
PursuitIsCurrent(selected, organization, owner) ==
  selected.revision = revision["pursuit"] /\ organization \in {owner, Nobody}

AnswerInit ==
  /\ revision = [kind \in Selectable |-> 1]
  /\ turn = NoTurn /\ omniRun = "none"

Becomes(t) == turn' = t
Finish(t, answer) == Becomes([t EXCEPT !.pc = "finish", !.answer = answer])
Fails(t) == Becomes([t EXCEPT !.pc = "fail"])

\* The request is recorded before anything else, or refused.  A federal selection has to be of
\* the current assessment, a pursuit of the revision of the environment.  The account
\* that the request comes with counts beside these two only: Ground answers about any.
AskOmni ==
  /\ turn = NoTurn
  /\ \E asks \in OmniQuestions, organization \in Organizations \cup {Nobody}, configured \in BOOLEAN,
        selected \in {NoSelection} \cup [what : Selectable, revision : 1..MaxRevision] :
       /\ selected.what # "nothing" => selected.revision <= revision[selected.what]
       /\ selected.what \notin {"pursuit", "route"} => organization = Nobody
       /\ LET t == [pc |-> "interpret", request |-> OmniRequest(asks, organization, selected, configured),
                    began |-> revision, failure |-> "none", named |-> FALSE,
                    answer |-> AnswerOn(Nobody, {}, "none"), told |-> NotTold, facts |-> {},
                    findings |-> {}, preferences |-> {}, constrained |-> FALSE, reads |-> {},
                    stop |-> "none"]
          IN  \/ /\ selected.what = "pursuit" /\ omniRun' = "RUNNING"
                 /\ \E a \in Organizations :
                      IF PursuitIsCurrent(selected, organization, a)
                        THEN Becomes([t EXCEPT !.pc = "explain", !.answer =
                               AnswerOn(a, {<<"account", a>>, <<"pursuit", selected.revision>>}, "pursuit")])
                        ELSE Fails(t)
              \/ /\ selected.what # "pursuit" /\ omniRun' = "RUNNING"
                 /\ IF selected.what = "federal" /\ selected.revision # revision["federal"]
                      THEN Fails(t) ELSE Becomes(t)
              \/ Becomes([pc |-> "refused"]) /\ UNCHANGED omniRun
  /\ UNCHANGED revision

\* An exception of the provider that answer does not handle: the request fails, or, when omni
\* does not handle it either, ends where it is, and its receipt stays RUNNING.
Escapes ==
  /\ turn.pc \in {"interpret", "explain", "read", "research", "word"}
  /\ turn.request.configured
  /\ Fails(turn) \/ Becomes([pc |-> "escaped"])
  /\ UNCHANGED <<revision, omniRun>>

\* _commercial_opportunity_answer
ExplainPursuit ==
  /\ turn.pc = "explain"
  /\ \/ ~turn.request.configured /\ Finish(turn, turn.answer)
     \/ turn.request.configured /\ \E status \in Statuses : Finish(turn, Deterministic(turn.answer, status))
     \/ /\ turn.request.configured
        /\ \E prose \in Proses :
             IF \/ prose.fault \in {"empty", "execution", "mislabels", "drops_action", "internal_identifier"}
                \/ Unsupported(prose, turn.answer.facts)
               THEN Finish(turn, Deterministic(turn.answer, "UNAVAILABLE"))
               ELSE Finish(turn, Worded(turn.answer, prose, {}))
  /\ UNCHANGED <<revision, omniRun>>

\* interpret: an intent, perhaps with the name of an account; a failure is kept for later.
Interpret ==
  /\ turn.pc = "interpret"
  /\ \/ ~turn.request.configured /\ Becomes([turn EXCEPT !.pc = "ground"])
     \/ /\ turn.request.configured
        /\ \/ \E named \in Interpretation : Becomes([turn EXCEPT !.pc = "ground", !.named = named])
           \/ \E status \in Statuses : Becomes([turn EXCEPT !.pc = "ground", !.failure = status])
  /\ UNCHANGED <<revision, omniRun>>

-----------------------------------------------------------------------------
\* What is selected is looked up again, and replaces the text of the routed answer.
FederalAnswer(t, about) ==
  [AnswerOn(about, {<<"federal", t.request.selected.revision>>}, "federal") EXCEPT !.notices = {"unknowns"}]
StaleAnswer(routed) == [routed EXCEPT !.facts = {}, !.notices = {"stale"}, !.action = "none"]

\* What a request goes on with when everything deterministic is there.
Gate(t, clarifies) ==
  CASE ~t.request.configured ->
         Finish(t, WithContract(t.request.asks, Deterministic(t.answer, "NOT_CONFIGURED")))
    [] t.request.configured /\ t.failure # "none" ->
         Finish(t, WithContract(t.request.asks, Deterministic(t.answer, t.failure)))
    [] t.request.configured /\ t.failure = "none" /\ clarifies ->
         Finish(t, Deterministic(t.answer, "AVAILABLE"))
    [] OTHER -> Becomes([t EXCEPT !.pc = IF ~t.told.told /\ t.answer.about \in Ledgers THEN "read" ELSE "research"])

\* Memories of the account and passages of the event, then the provider if there is one: the
\* event of the passages has to concern the account, if there is one.
GoOn(t, clarifies) ==
  \E remembers \in SUBSET (Organizations \cap {t.answer.about}), retained \in SUBSET Organizations :
    /\ Cardinality(retained) <= (IF "event" \in t.request.asks THEN 1 ELSE 0)
    /\ t.answer.about # Nobody => retained \subseteq {t.answer.about}
    /\ Gate([t EXCEPT !.named = FALSE, !.preferences = remembers,
                      !.findings = {<<"public", o>> : o \in retained}],
            clarifies)

Ground ==
  /\ turn.pc = "ground"
  /\ \E about \in Organizations \cup {Nobody}, told \in Tellings, clarifies \in BOOLEAN :
       /\ told.told => about # Nobody /\ "event" \in turn.request.asks
       /\ clarifies => turn.named /\ about = Nobody
       /\ LET selected == turn.request.selected
              routed == AnswerOn(about, RoutedFacts(about, told), "routed")
              t == [turn EXCEPT !.answer = routed, !.told = told]
              relates == selected.what = "route" /\ AppliesRoute(turn.request.asks)
          IN  \/ selected.what = "federal" /\ Finish(t, FederalAnswer(t, about))
              \/ /\ selected.what = "market"
                 /\ IF ~MarketIsCurrent(t) THEN Finish(t, StaleAnswer(routed))
                    ELSE GoOn([t EXCEPT !.answer.facts = {<<"market", selected.revision>>},
                                        !.facts = {<<"market", selected.revision>>},
                                        !.answer.action = "market_follow_up"], FALSE)
              \/ relates /\ \E source \in Ledgers, constrained \in BOOLEAN :
                   IF ~RouteIsCurrent(t, source) THEN Finish(t, StaleAnswer(routed))
                     ELSE GoOn([t EXCEPT !.answer = AnswerOn(source, {<<"route", selected.revision>>}, "route"),
                                         !.facts = {<<"route", selected.revision>>},
                                         !.constrained = constrained], clarifies)
              \/ selected.what \notin {"federal", "market"} /\ ~relates /\ GoOn(t, clarifies)
  /\ UNCHANGED <<revision, omniRun>>

-----------------------------------------------------------------------------
\* CommercialToolSession: a selection of a tool and its argument, over one account.
ToolsFor(t) ==
  {<<"read_history", "none">>, <<"read_evidence", "known">>, <<"read_evidence", "unknown">>}
    \cup (IF t.request.selected.what = "market" THEN {<<"read_selected_market", "none">>} ELSE {})

\* read
RecordOf(t, read) ==
  CASE read = <<"read_evidence", "unknown">> -> <<"identifier", "asked_for">>
    [] read[1] = "read_selected_market" -> <<"market", t.request.selected.revision>>
    [] OTHER -> <<"record", t.answer.about>>

\* What was not found is said first, and alone when nothing else was read; and so is that the
\* reads ended before the model had no more to ask.
Retrieved(t, reads, stop) ==
  LET missing == {r \in reads : r[2] = "unknown"}
      looked == [t.answer EXCEPT !.facts = (IF reads = missing THEN {} ELSE @) \cup {<<"identifier", "asked_for">>},
                   !.notices = @ \cup {"not_found"}, !.missing = @ \cup {"not_found"},
                   !.action = IF reads = missing THEN "look_up_again" ELSE @]
      found == IF missing = {} THEN t.answer ELSE looked
  IN  [t EXCEPT !.pc = "research", !.reads = reads, !.stop = stop,
         !.facts = @ \cup {RecordOf(t, r) : r \in reads},
         !.answer = IF stop = "MODEL_DONE" THEN found
                    ELSE [found EXCEPT !.notices = @ \cup {"partial"}, !.missing = @ \cup {"partial"}]]

\* What comes of asking for a read that is none: also because it is after the deadline.
Stops == {"MODEL_DONE", "DEADLINE", "PROVIDER", "READ_SELECTION_FAILED"}

\* One turn of the loop of run: another read, or the end.
ChooseRead ==
  /\ turn.pc = "read"
  /\ \/ \E stop \in Stops : Becomes(Retrieved(turn, turn.reads, stop))
     \/ \E read \in ToolsFor(turn) :
          LET reads == turn.reads \cup {read}
          IN  \/ read \in turn.reads /\ Becomes(Retrieved(turn, turn.reads, "REPEATED_READ"))
              \/ read \notin turn.reads /\ Becomes(Retrieved(turn, turn.reads, "EVIDENCE_BUDGET"))
              \/ /\ read \notin turn.reads
                 /\ IF Cardinality(reads) = MaxReads THEN Becomes(Retrieved(turn, reads, "TOOL_BUDGET"))
                    ELSE Becomes([turn EXCEPT !.reads = reads])
  /\ UNCHANGED <<revision, omniRun>>

\* research_public_web of the provider, for the public name of the account alone.
FindingsAbout(organization) == {<<"public", organization>>}

\* The public research, of the name of the account; a failure is told when there is no finding.
Research ==
  /\ turn.pc = "research"
  /\ LET t == [turn EXCEPT !.pc = "word"]
         With(findings) == Becomes([t EXCEPT !.findings = findings, !.answer.facts = @ \cup findings])
         fails == IF turn.findings # {} THEN With(turn.findings)
                  ELSE Becomes([t EXCEPT !.answer.missing = @ \cup {"no_research"}])
     IN  \/ ~Researches(turn.request.asks, turn.findings # {}) /\ With(turn.findings)
         \/ Researches(turn.request.asks, turn.findings # {}) /\ fails
         \/ /\ Researches(turn.request.asks, turn.findings # {}) /\ turn.answer.about # Nobody
            /\ With(turn.findings \cup FindingsAbout(turn.answer.about))
  /\ UNCHANGED <<revision, omniRun>>

\* synthesize, and the two checks; the contract is applied to whatever comes of it.
Word ==
  /\ turn.pc = "word"
  /\ LET Concludes(answer) == Finish(turn, WithContract(turn.request.asks, answer))
     IN  \/ \E status \in Statuses : Concludes(Deterministic(turn.answer, status))
         \/ \E prose \in Proses :
              IF SynthesisRejected(turn, prose) \/ AssessmentRejected(turn, prose)
                THEN Concludes([turn.answer EXCEPT !.status = "UNAVAILABLE", !.missing = @ \cup {"rejected"}])
                ELSE Concludes(Worded(turn.answer, prose, turn.answer.notices \cap {"partial"}))
  /\ UNCHANGED <<revision, omniRun>>

-----------------------------------------------------------------------------
\* The answer is shown when its receipt is written, as far as the program knows; otherwise the
\* failure is written, unless the receipt was closed, or cannot be.
Record ==
  /\ turn.pc = "finish"
  /\ \/ omniRun' = "ANSWER_RECORDED" /\ Becomes([turn EXCEPT !.pc = "answered"])
     \/ omniRun' \in {"ANSWER_RECORDED", "FAILED", "RUNNING"} /\ Becomes([pc |-> "failed"])
  /\ UNCHANGED revision

RecordFailure ==
  /\ turn.pc = "fail"
  /\ omniRun' \in {"FAILED", "RUNNING"} /\ Becomes([pc |-> "failed"])
  /\ UNCHANGED revision

\* What can be selected is superseded before the request, and what is selected during it; bound:
\* one kind of selection.
Supersede ==
  /\ turn.pc \in {"none", "interpret", "explain", "ground"}
  /\ \E what \in IF turn.pc = "none" THEN Selectable ELSE Selectable \cap {turn.request.selected.what} :
       /\ \A other \in Selectable \ {what} : revision[other] = 1
       /\ revision[what] < MaxRevision /\ revision' = [revision EXCEPT ![what] = @ + 1]
  /\ UNCHANGED <<turn, omniRun>>

AnswerNext ==
  \/ AskOmni \/ Escapes \/ ExplainPursuit \/ Interpret \/ Ground \/ ChooseRead \/ Research \/ Word
  \/ Record \/ RecordFailure \/ Supersede
AnswerSpec == AnswerInit /\ [][AnswerNext]_answerVars

-----------------------------------------------------------------------------
Concluded == turn.pc \in {"finish", "answered"} /\ turn.answer.action # "none"

\* Each figure in the words of the model stood in what was read for this request about the
\* account that the answer is about: none is made up, taken from a preference or from another
\* account.  (What they say without figures nobody checks.)
FiguresAreGrounded ==
  Concluded /\ turn.answer.by = "model" =>
    \A fact \in turn.answer.facts :
      /\ fact[1] \notin {"preference", "nothing"}
      /\ fact[1] = "record" => fact[2] = turn.answer.about /\ turn.reads # {}

\* They claim no execution, promise nothing over a constraint, and keep the score and the
\* action of the assessment.
WordsAreChecked ==
  Concluded /\ turn.answer.by = "model" =>
    /\ turn.answer.fault \notin {"empty", "execution", "mislabels"}
    /\ turn.answer.fault = "promises" => ~turn.constrained
    /\ turn.told.told =>
         /\ turn.answer.fault = "drops_score" => ~turn.told.scored
         /\ turn.answer.fault = "drops_action" => ~turn.told.acts

\* Whoever worded it, an answer whose reads were cut short says so, and one that is
\* under contract says what was not done, unless it came of a selection or asks back.
LimitsAreTold ==
  Concluded =>
    /\ turn.stop \notin {"none", "MODEL_DONE"} => "partial" \in turn.answer.notices
    /\ turn.stop # "none" /\ UnderContract(turn.request.asks) =>
         turn.answer.boundary /\ turn.answer.action = "contract"

\* What is told of a selection, or given as a figure of it, was current when the request began, or later.
SelectionsAreCurrent ==
  Concluded => \A fact \in turn.answer.facts : fact[1] \in Selectable => fact[2] >= turn.began[fact[1]]

\* Memories that reach the model are of the account that the answer is about.
PrivacyIsKept == Concluded => turn.preferences \subseteq {turn.answer.about}

\* The seller sees an answer only when its receipt holds it; a receipt is closed once.
AnswersAreRecorded ==
  /\ turn.pc = "answered" => omniRun = "ANSWER_RECORDED"
  /\ turn.pc \in {"fail", "finish", "escaped"} => omniRun = "RUNNING"
  /\ turn.pc = "refused" => omniRun = "none"

\* What is shown passed the checks that the code has, whatever failed on the way.
OmniIsChecked ==
  FiguresAreGrounded /\ WordsAreChecked /\ LimitsAreTold /\ SelectionsAreCurrent /\ PrivacyIsKept /\ AnswersAreRecorded
=============================================================================
