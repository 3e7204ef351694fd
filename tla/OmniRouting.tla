------------------------------ MODULE OmniRouting ------------------------------
(***************************************************************************)
(* The deterministic answers of Omni over the turns of a conversation: what *)
(* each question is about, and what the next one may refer to.             *)
(*   OmniOrchestrator.answer, _resolve_conversation_context,               *)
(*   _answer_current and its handlers, _attach_conversation_referent        *)
(*                                    modules/assistant/orchestration.py   *)
(*                                                                         *)
(* A question is the set of the phrase families that its words belong to,   *)
(* and the accounts that it names.  An answer is the account it is about and *)
(* the records it drew on; its text is left out.  There is one event, with   *)
(* a record for each account it concerns, one facility and one Action.      *)
(***************************************************************************)
EXTENDS Integers, Sequences, FiniteSets

CONSTANTS
  Accounts,         \* researched accounts: the catalogue never loses one
  Ledgers,          \* the accounts with a commercial ledger
  FacilityAccount,
  ActionAccount,
  Questions,        \* sets of the phrase families below
  MaxAssessment     \* bound on the versions of an assessment

ASSUME RoutingAssumption == MaxAssessment \in Nat /\ Ledgers \subseteq Accounts

\* event, facility, action, relation, account, screen: what the question is about;
\* portfolio, cross, compare, pair: it is about several accounts;
\* continues, other one, that account: it refers to what was said;
\* matter, records, unknown name: words that a handler looks for.
PhraseFamilies ==
  {"event", "facility", "action", "relation", "account", "screen",
   "portfolio", "cross", "compare", "pair",
   "continues", "other_one", "that_account",
   "matter", "records", "unknown_name"}

VARIABLES
  briefed,     \* for each account, its record of the event: none, or the assessment it has
  visible,     \* the Action is in the list of the user
  session,     \* the account that the client takes for that of the conversation
  referent     \* what the last answer left to be referred to

routingVars == <<briefed, visible, session, referent>>

NoOne == "no_one"
NoRecord == -1   \* 0: a record without an assessment
NoAssessment == <<>>
Listed == Accounts \cup {NoOne}
Assessments == Accounts \X (1..MaxAssessment)   \* an assessment is of an event and an account

\* The records that an answer drew on.
Nowhere == [event |-> FALSE, assessment |-> NoAssessment, facility |-> FALSE,
            action |-> FALSE, account |-> NoOne, related |-> NoOne]
Say(account, used) == [about |-> account, used |-> used]
Refuse == Say(NoOne, Nowhere)

NoReferent == [event |-> FALSE, assessment |-> NoAssessment, facility |-> FALSE,
               action |-> FALSE, account |-> NoOne, comparison |-> <<>>, relation |-> <<>>]

\* What is selected, an account and one of the other records, on the surface that shows it
\* or "elsewhere": on one that sums up no selection (Today, Accounts, Settings, Monitor).
OnScreen(account, what, assessment) ==
  [account |-> account, event |-> what = "event", assessment |-> assessment,
   facility |-> what = "facility", action |-> what = "action", shown |-> what # "elsewhere"]

Screens ==
  {OnScreen(x, what, NoAssessment) :
      x \in Listed, what \in {"nothing", "event", "facility", "action", "elsewhere"}}
    \cup {OnScreen(assessment[1], "event", assessment) : assessment \in Assessments}

\* What the configured model made of the question, if anything.
NotInterpreted == [intent |-> "none", entity |-> NoOne]
Interpretations ==
  {NotInterpreted}
    \cup [intent : {"screen", "general"}, entity : {NoOne}]
    \cup [intent : {"account"}, entity : Listed]

\* A request: its words, the account that it is explicitly about, the screen, the model.
\* What the model made of it is looked at when no phrase decides.
OmniRequests ==
  LET asked(questions, interpretations) ==
        [asks : questions, names : SUBSET Accounts, explicit : Listed, screen : Screens,
         interpreted : interpretations]
  IN  asked(Questions, {NotInterpreted})
        \cup asked({q \in Questions : q \subseteq {"continues"}}, Interpretations)

-----------------------------------------------------------------------------
\* _resolve_conversation_context

\* What a request has before the conversation is looked at.
Given(q, ref) ==
  [account |-> q.screen.account, event |-> q.screen.event,
   assessment |-> q.screen.assessment, facility |-> q.screen.facility,
   action |-> q.screen.action, shown |-> q.screen.shown, session |-> session,
   comparison |-> <<>>,
   referent |-> ref, drew |-> FALSE, refuses |-> FALSE]

\* Questions that never inherit a scope.
StandsAlone(q) ==
  \/ q.names # {}
  \/ /\ {"cross", "compare"} \cap q.asks # {}
     /\ "portfolio" \in q.asks /\ "pair" \notin q.asks
  \/ "screen" \in q.asks
  \/ "continues" \notin q.asks

\* The current selection is of the kind that is asked for.
ScreenSupplies(q) ==
  \/ q.screen.event /\ "event" \in q.asks
  \/ q.screen.facility /\ "facility" \in q.asks
  \/ q.screen.action /\ "action" \in q.asks
  \/ q.screen.account # NoOne /\ "account" \in q.asks

LooksBack(q) == ~StandsAlone(q) /\ ~ScreenSupplies(q)

OtherOf(pair, x) == IF pair[1] = x THEN pair[2] ELSE pair[1]

\* Mutant: the event is told as it is now, whatever was said of it.
EventAsItIs(given, ref) == [given EXCEPT !.event = TRUE, !.drew = TRUE]

\* The event, and the assessment that was told if it is the current one.
FromEvent(given, ref) ==
  LET assessment == ref.assessment
  IN  IF \A x \in Accounts : briefed[x] = NoRecord THEN [given EXCEPT !.refuses = TRUE]
      ELSE IF assessment = NoAssessment THEN [given EXCEPT !.event = TRUE, !.drew = TRUE]
      ELSE IF briefed[assessment[1]] = assessment[2]
        THEN [given EXCEPT !.event = TRUE, !.drew = TRUE, !.assessment = assessment]
      ELSE [given EXCEPT !.refuses = TRUE]

Resolve(q, ref) ==
  LET given == Given(q, ref)
      of(x) == [given EXCEPT !.account = x, !.drew = TRUE]
  IN  IF ref = NoReferent \/ ~LooksBack(q) THEN given
      ELSE IF "pair" \in q.asks /\ ref.comparison # <<>>
        THEN [given EXCEPT !.comparison = ref.comparison, !.drew = TRUE]
      ELSE IF "other_one" \in q.asks
        THEN IF \E i \in DOMAIN ref.comparison : ref.comparison[i] = ref.account
               THEN [given EXCEPT !.session = OtherOf(ref.comparison, ref.account),
                                  !.drew = TRUE]
               ELSE [given EXCEPT !.refuses = TRUE]
      ELSE IF ref.event /\ "event" \in q.asks THEN FromEvent(given, ref)
      ELSE IF ref.facility /\ "facility" \in q.asks
        THEN [given EXCEPT !.facility = TRUE, !.drew = TRUE]
      ELSE IF ref.action /\ "action" \in q.asks
        THEN IF visible THEN [given EXCEPT !.action = TRUE, !.drew = TRUE]
             ELSE [given EXCEPT !.refuses = TRUE]
      ELSE IF ref.account # NoOne /\ "account" \in q.asks THEN of(ref.account)
      ELSE IF ref.facility /\ "that_account" \in q.asks THEN of(FacilityAccount)
      ELSE IF ref.relation # <<>> /\ "relation" \in q.asks THEN of(ref.relation[1])
      ELSE given

-----------------------------------------------------------------------------
\* The handlers

Candidates == {x \in Accounts : briefed[x] # NoRecord}

FirstOf(S) == CHOOSE x \in S : TRUE   \* in the order of the catalogue

\* _account_follow_up_answer, and the briefing that ends _answer_current.
AccountAnswer(x) == Say(x, [Nowhere EXCEPT !.account = x])

\* _comparison_follow_up_answer and _compare_accounts_answer
PairAnswer(pair) ==
  Say(NoOne, [Nowhere EXCEPT !.account = pair[1], !.related = pair[2]])

InOrder(S) == LET x == FirstOf(S) IN <<x, FirstOf(S \ {x})>>

CompareAnswer(q) == IF Cardinality(q.names) = 2 THEN PairAnswer(InOrder(q.names)) ELSE Refuse

\* _selected_event_answer: the record of the account that is wanted, or the first.
EventChoice(c) ==
  LET wanted == IF c.assessment # NoAssessment THEN c.assessment[1] ELSE c.account
  IN  IF wanted \in Candidates THEN wanted ELSE FirstOf(Candidates)

OfEvent == [Nowhere EXCEPT !.event = TRUE]

\* A record that was assessed is told if no other assessment was asked for.
BriefedAnswer(x, c) ==
  LET told == <<x, briefed[x]>>
  IN  IF c.assessment \notin {NoAssessment, told} THEN Say(x, OfEvent)
      ELSE Say(x, [OfEvent EXCEPT !.account = x, !.assessment = told])

\* One that was not is told as its source has it.
SourceAnswer(x) == Say(x, [OfEvent EXCEPT !.account = x])

EventAnswer(c) ==
  IF Candidates = {} THEN Say(NoOne, OfEvent)
  ELSE LET x == EventChoice(c)
       IN  IF briefed[x] = 0 THEN SourceAnswer(x) ELSE BriefedAnswer(x, c)

FacilityAnswer(matters) ==
  Say(FacilityAccount,
      [Nowhere EXCEPT !.facility = TRUE, !.account = IF matters THEN FacilityAccount ELSE NoOne])

ActionAnswer ==
  IF visible
    THEN Say(ActionAccount, [Nowhere EXCEPT !.action = TRUE, !.account = ActionAccount])
    ELSE Say(NoOne, [Nowhere EXCEPT !.action = TRUE])

\* From the named account, or from the given one to the named one.
RelationEnds(q, c) ==
  LET base == IF q.explicit # NoOne THEN q.explicit ELSE c.account
  IN  IF q.names = {} THEN <<base, NoOne>>
      ELSE IF Cardinality(q.names) # 1 THEN InOrder(q.names)
      ELSE LET n == FirstOf(q.names)
           IN  IF base \in {NoOne, n} THEN <<n, NoOne>> ELSE <<base, n>>

\* _relationship_answer
RelationAnswer(q, c) ==
  LET ends == RelationEnds(q, c)
  IN  IF ends[1] = NoOne THEN Refuse
      ELSE IF "unknown_name" \in q.asks THEN Say(ends[1], Nowhere)
      ELSE Say(ends[1], [Nowhere EXCEPT !.account = ends[1], !.related = ends[2]])

\* The summaries of the Intelligence, Actions and Account Detail (or Map) surfaces.
EventScreen == Say(NoOne, [Nowhere EXCEPT !.event = Candidates # {}])
ActionScreen == Say(NoOne, [Nowhere EXCEPT !.action = visible])
AccountScreen(x) == Say(x, [Nowhere EXCEPT !.account = x])

\* _screen_summary_answer: what it says elsewhere is about no selected record.
ScreenAnswer(c) ==
  IF ~c.shown THEN Refuse
  ELSE IF c.facility THEN FacilityAnswer(TRUE)
  ELSE IF c.event THEN EventScreen
  ELSE IF c.action THEN ActionScreen
  ELSE AccountScreen(c.account)

\* _cross_account_answer: about several accounts, and so about none.
CrossAnswer == Refuse

\* It is the one account that is named, or the explicit one by a shorter name.
EntityIsNamed(q) ==
  \/ q.names = {q.interpreted.entity}
  \/ q.names = {} /\ q.interpreted.entity = q.explicit

\* _interpreted_read_answer
InterpretedAnswer(q, c) ==
  LET known == {q.explicit, c.account, c.session, c.referent.account} \ {NoOne}
      selected == IF q.explicit # NoOne THEN q.explicit
                  ELSE IF c.account # NoOne THEN c.account
                  ELSE IF c.session # NoOne THEN c.session
                  ELSE c.referent.account
  IN  CASE q.interpreted.intent = "screen" -> ScreenAnswer(c)
        [] q.interpreted.intent = "general" ->
             IF q.explicit # NoOne THEN AccountAnswer(q.explicit) ELSE Refuse
        [] q.interpreted.entity # NoOne ->
             IF EntityIsNamed(q) THEN AccountAnswer(q.interpreted.entity) ELSE Refuse
        [] OTHER -> IF known = {} THEN Refuse ELSE AccountAnswer(selected)

\* The end of _answer_current: an account that is given, or the only one that is named.
BriefingAnswer(q, c) ==
  IF q.explicit # NoOne THEN AccountAnswer(q.explicit)
  ELSE IF c.session # NoOne THEN AccountAnswer(c.session)
  ELSE IF Cardinality(q.names) = 1 THEN AccountAnswer(FirstOf(q.names))
  ELSE Refuse      \* _unscoped_answer

-----------------------------------------------------------------------------
\* _answer_current: the handlers in their order.

\* A follow-up on the selected account, unless something else is asked for.
FollowsUp(q, c) ==
  /\ c.account # NoOne /\ "account" \in q.asks
  /\ {"portfolio", "screen", "relation"} \cap q.asks = {}
  /\ ~(c.event /\ "event" \in q.asks)
  /\ ~(c.facility /\ "facility" \in q.asks)
  /\ ~(c.action /\ "action" \in q.asks)

\* Words on the records of one account, of which there are some, compare no accounts.
Compares(q) ==
  /\ "compare" \in q.asks
  /\ ~(q.explicit \in Ledgers /\ Cardinality(q.names) < 2 /\ "records" \in q.asks)

AnswerCurrent(q, c) ==
  IF c.refuses THEN Refuse
  ELSE IF FollowsUp(q, c) THEN AccountAnswer(c.account)
  ELSE IF c.comparison # <<>> /\ "pair" \in q.asks THEN PairAnswer(c.comparison)
  ELSE IF Compares(q) THEN CompareAnswer(q)
  ELSE IF "cross" \in q.asks THEN CrossAnswer
  ELSE IF c.event /\ "event" \in q.asks THEN EventAnswer(c)
  ELSE IF c.facility /\ "facility" \in q.asks THEN FacilityAnswer("matter" \in q.asks)
  ELSE IF c.action /\ "action" \in q.asks THEN ActionAnswer
  ELSE IF "relation" \in q.asks THEN RelationAnswer(q, c)
  ELSE IF "screen" \in q.asks THEN ScreenAnswer(c)
  ELSE IF q.interpreted # NotInterpreted THEN InterpretedAnswer(q, c)
  ELSE BriefingAnswer(q, c)

\* _attach_conversation_referent
Referent(q, c, used) ==
  LET paired == used.account # NoOne /\ used.related # NoOne
      related == "relation" \in q.asks /\ used.account # NoOne
      compared == paired /\ ~related /\ {"compare", "pair"} \cap q.asks # {}
      forgets == \/ "screen" \in q.asks
                 \/ "cross" \in q.asks /\ "pair" \notin q.asks /\ ~c.drew
  IN  IF forgets THEN NoReferent
      ELSE [event |-> used.event, assessment |-> used.assessment,
            facility |-> used.facility, action |-> used.action,
            account |-> IF compared THEN NoOne ELSE used.account,
            comparison |-> IF compared THEN <<used.account, used.related>> ELSE <<>>,
            relation |-> IF ~related THEN <<>>
                         ELSE IF paired THEN <<used.account, used.related>>
                         ELSE <<used.account>>]

\* What a turn may leave: what can be referred to, and the account it was about.
Outcome(q) ==
  LET c == Resolve(q, referent)
      reply == AnswerCurrent(q, c)
  IN  [referent |-> Referent(q, c, reply.used), about |-> reply.about]

Outcomes == {Outcome(q) : q \in OmniRequests}

\* One turn: the client keeps the referent, and the account that was answered about.
TakeTurn(outcome) ==
  /\ referent' = outcome.referent
  /\ session' = IF outcome.about = NoOne THEN session ELSE outcome.about
  /\ UNCHANGED <<briefed, visible>>

\* Between two turns an event is published, assessed, assessed again, or goes.
EventChanges(x) ==
  /\ briefed' \in {[briefed EXCEPT ![x] = record] :
        record \in IF briefed[x] = NoRecord THEN 0..MaxAssessment
                   ELSE {NoRecord} \cup ((briefed[x] + 1)..MaxAssessment)}
  /\ UNCHANGED <<visible, session, referent>>

ActionChanges ==
  /\ visible' = ~visible
  /\ UNCHANGED <<briefed, session, referent>>

NewConversation ==
  /\ session' = NoOne
  /\ referent' = NoReferent
  /\ UNCHANGED <<briefed, visible>>

RoutingInit ==
  /\ briefed = [x \in Accounts |-> NoRecord]
  /\ visible = TRUE
  /\ session = NoOne
  /\ referent = NoReferent

RoutingNext ==
  \/ \E outcome \in Outcomes : TakeTurn(outcome)
  \/ \E x \in Accounts : EventChanges(x)
  \/ ActionChanges \/ NewConversation

RoutingSpec == RoutingInit /\ [][RoutingNext]_routingVars

-----------------------------------------------------------------------------

\* Follow-ups on an event.
EventFollowUps == {q \in OmniRequests : "event" \in q.asks /\ LooksBack(q)}

\* A follow-up on an event of which an assessment was told tells of that assessment,
\* which is still the current one, or of nothing: never of a newer one, nor of that of
\* another account.
ContinuationIsCurrent ==
  referent.assessment # NoAssessment =>
    \A q \in EventFollowUps :
      LET r == AnswerCurrent(q, Resolve(q, referent))
          told == referent.assessment
      IN  r.about # NoOne
            => r.used.assessment = told /\ briefed[told[1]] = told[2]
=============================================================================
