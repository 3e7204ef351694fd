------------------------------ MODULE TodayQueue ------------------------------
(***************************************************************************)
(* The seller's Today: one queue of commercial alerts and public signals,   *)
(* read anew on each request, and what a passing day does to it.            *)
(*   CommercialAlertEngine.evaluate      modules/alerts/commercial.py      *)
(*   signal_brief, publication_freshness monitor/briefs.py                 *)
(*   public_signal_assessment, public_risk_assessment                      *)
(*                                       modules/scoring/public_inputs.py  *)
(*   priority_candidate, order_priorities modules/priority_ordering.py     *)
(*   build_command_center                modules/command_center.py         *)
(* A day is the unit of time. The thresholds of the code (14 and 60 days of *)
(* a quote, 7 or 30 of a publication, 60 of a saved one) are constants; the *)
(* signal confidence is in tenths of a point.                              *)
(***************************************************************************)
EXTENDS Integers, FiniteSets

CONSTANTS
  Quotes,         \* of a value of at least high_value_quote_minor, numbers
  Units,          \* the business units a quote is of, numbers
  Orders,         \* numbers
  Briefs,         \* numbers
  RiskEvents,     \* the briefs of an event type that is a risk; the others are opportunities
  FollowUpDays, StaleQuoteDays,
  Window,         \* freshness_window_hours
  SavedDays,      \* SAVED_INTELLIGENCE_WINDOW_DAYS
  Bases,          \* the confidence of a signal without its freshness, in tenths
  Scores,         \* of a complete assessment
  PartialCeiling,        \* score_range.high of an incomplete one
  MaxToday        \* bound on the clock

ASSUME ThresholdsAreOrdered ==
  /\ {FollowUpDays, StaleQuoteDays, Window, SavedDays, MaxToday} \subseteq Nat
  /\ FollowUpDays < StaleQuoteDays /\ Window < SavedDays
  /\ RiskEvents \subseteq Briefs
  /\ Bases \subseteq Nat /\ Scores \subseteq 0..100 /\ PartialCeiling \in 0..100

VARIABLES
  today,
  opened,      \* the day an open quote was made, or none
  promised,    \* the day an order that has not shipped is promised for, or none
  signal       \* the resolved public event of a brief as it is assessed, or none

todayVars == <<today, opened, promised, signal>>

NoDay == -1
Unscored == -1
NoSignal == [published |-> NoDay, reviewed |-> FALSE, actionable |-> FALSE, base |-> 0, score |-> Unscored]

\* A resolved event: seller_relevance_state, priority_eligible, and the two decisions.
Assessments ==
  [reviewed : BOOLEAN, actionable : BOOLEAN, base : Bases, score : Scores \cup {Unscored}]

-----------------------------------------------------------------------------
\* What a brief is of age; publication_freshness, evidence_state and the bins share the window.
Age(b) == today - signal[b].published
Fresh(b) == Age(b) <= Window

FreshnessPoints(b) ==
  IF 4 * Age(b) <= Window THEN 100 ELSE IF 2 * Age(b) <= Window THEN 75
  ELSE IF Age(b) <= Window THEN 50 ELSE 0

\* Mutant: the evidence of an expired publication still counts.
AnyEvidence(b) == TRUE

\* FactorInput.evidence_state of the factors of both assessments.
EvidenceCounts(b) == Fresh(b)

Confidence(b) ==
  IF ~EvidenceCounts(b) THEN "NONE"
  ELSE IF signal[b].base + FreshnessPoints(b) >= 700 THEN "HIGH" ELSE "MEDIUM"

\* public_risk_assessment reads dated evidence; opportunity_priority is as it was assessed.
Score(b) == IF b \in RiskEvents /\ ~EvidenceCounts(b) THEN Unscored ELSE signal[b].score
RangeHigh(b) == IF b \in RiskEvents /\ ~EvidenceCounts(b) THEN 100 ELSE PartialCeiling

-----------------------------------------------------------------------------
\* build_command_center: current, recent_saved and the lane of action priorities.
Known(b) == signal[b] # NoSignal
IsCurrent(b) == Known(b) /\ ~signal[b].reviewed /\ Fresh(b)
IsSaved(b) == Known(b) /\ ~Fresh(b) /\ Age(b) <= SavedDays

ActionLane == {b \in Briefs : (IsCurrent(b) \/ IsSaved(b)) /\ signal[b].actionable}

\* An item: what it is, of which subject, for which business unit; the order of ids is kept.
Item(kind, subject, unit) == [kind |-> kind, subject |-> subject, unit |-> unit]

\* CommercialAlertEngine.evaluate: a quote once for each of its units, under one of two kinds.
QuoteAlerts ==
  UNION {{Item(IF today - opened[q] >= StaleQuoteDays THEN "STALE_QUOTE" ELSE "QUOTE_FOLLOW_UP", q, u) : u \in Units}
         : q \in {quote \in Quotes : opened[quote] # NoDay /\ today - opened[quote] >= FollowUpDays}}

OverdueOrders == {Item("OVERDUE_ORDER", o, 0) : o \in {order \in Orders : promised[order] # NoDay /\ promised[order] < today}}

Queue == QuoteAlerts \cup OverdueOrders \cup {Item("PUBLIC_SIGNAL", b, 0) : b \in ActionLane}

-----------------------------------------------------------------------------
\* priority_candidate: INTERNAL_NATURE and severity of an alert; the decision of a brief.
Candidate(item) ==
  CASE item.kind \in {"STALE_QUOTE", "OVERDUE_ORDER"} ->
         [nature |-> "RISK", band |-> "HIGH", score |-> Unscored, ceiling |-> Unscored, confidence |-> "HIGH"]
    [] item.kind = "QUOTE_FOLLOW_UP" ->
         [nature |-> "OPPORTUNITY", band |-> "MEDIUM", score |-> Unscored, ceiling |-> Unscored, confidence |-> "HIGH"]
    [] item.kind = "PUBLIC_SIGNAL" ->
         LET b == item.subject
         IN  [nature |-> IF b \in RiskEvents THEN "RISK" ELSE "OPPORTUNITY",
              band |-> IF Score(b) = Unscored THEN "NONE" ELSE IF Score(b) >= 70 THEN "HIGH" ELSE "MEDIUM",
              score |-> Score(b), ceiling |-> IF Score(b) = Unscored THEN RangeHigh(b) ELSE Score(b),
              confidence |-> Confidence(b)]

\* _assess
Complete(c) == c.confidence # "NONE" /\ c.band # "NONE"

Triage(c) ==
  IF c.nature = "RISK" /\ c.band = "HIGH" /\ c.confidence = "HIGH" THEN 1
  ELSE IF c.nature = "RISK" /\ c.band = "HIGH" /\ c.confidence = "MEDIUM" THEN 2
  ELSE 3

OrderingScore(c) ==
  IF Complete(c) /\ c.score # Unscored THEN c.score
  ELSE IF c.ceiling # Unscored THEN c.ceiling
  ELSE IF c.score # Unscored THEN c.score
  ELSE CASE c.band = "HIGH" -> 75 [] c.band = "MEDIUM" -> 50 [] OTHER -> -1

\* Rows of the same class, completeness and score: no due date here; alerts are of this moment, signals older.
IsBefore(x, y) ==
  LET a == Candidate(x)
      b == Candidate(y)
      rank(c) == <<Triage(c), IF Complete(c) THEN 0 ELSE 1, 100 - OrderingScore(c)>>
      created(item) == IF item.kind = "PUBLIC_SIGNAL" THEN signal[item.subject].published ELSE today
      ahead(s, t, i) == s[i] < t[i] /\ \A j \in 1..i - 1 : s[j] = t[j]
  IN  \/ \E i \in 1..3 : ahead(rank(a), rank(b), i)
      \/ rank(a) = rank(b) /\ created(x) < created(y)

-----------------------------------------------------------------------------
QuoteOpens(q) ==
  /\ opened[q] = NoDay /\ opened' = [opened EXCEPT ![q] = today]
  /\ UNCHANGED <<today, promised, signal>>

\* Its status is no longer OPEN.
QuoteSettles(q) ==
  /\ opened[q] # NoDay /\ opened' = [opened EXCEPT ![q] = NoDay]
  /\ UNCHANGED <<today, promised, signal>>

OrderIsPromised(o, day) ==
  /\ promised[o] = NoDay /\ day >= today /\ promised' = [promised EXCEPT ![o] = day]
  /\ UNCHANGED <<today, opened, signal>>

\* Shipped or cancelled.
OrderShips(o) ==
  /\ promised[o] # NoDay /\ promised' = [promised EXCEPT ![o] = NoDay]
  /\ UNCHANGED <<today, opened, signal>>

\* The event is collected, or assessed anew; its publication stays what it was.
SignalIsAssessed(b, assessment) ==
  /\ signal' = [signal EXCEPT ![b] =
       [published |-> IF Known(b) THEN signal[b].published ELSE today, reviewed |-> assessment.reviewed,
        actionable |-> assessment.actionable, base |-> assessment.base, score |-> assessment.score]]
  /\ UNCHANGED <<today, opened, promised>>

DayPasses ==
  /\ today < MaxToday /\ today' = today + 1
  /\ UNCHANGED <<opened, promised, signal>>

TodayInit ==
  /\ today = 0
  /\ opened = [q \in Quotes |-> NoDay] /\ promised = [o \in Orders |-> NoDay]
  /\ signal = [b \in Briefs |-> NoSignal]

TodayNext ==
  \/ \E q \in Quotes : QuoteOpens(q) \/ QuoteSettles(q)
  \/ \E o \in Orders : OrderShips(o) \/ \E day \in {today, today + 1} : OrderIsPromised(o, day)
  \/ \E b \in Briefs, assessment \in Assessments : SignalIsAssessed(b, assessment)
  \/ DayPasses

TodaySpec == TodayInit /\ [][TodayNext]_todayVars

-----------------------------------------------------------------------------
\* An item a day later: a quote's reminder becomes its escalation.
SameMatter(x, y) == x.subject = y.subject /\ x.unit = y.unit /\
  (x.kind = y.kind \/ (x.kind = "QUOTE_FOLLOW_UP" /\ y.kind = "STALE_QUOTE"))

(* What a day alone does to the queue: a commercial matter stays, once, is   *)
(* never less urgent and is not overtaken by a public signal; a signal never *)
(* becomes more urgent, is in a class that interrupts the seller only while  *)
(* it is current and was measured, and leaves only when its time is over.    *)
TimeOnlyAges == [][ today' > today =>
  /\ \A x \in Queue : x.kind # "PUBLIC_SIGNAL" =>
       \E y \in Queue' :
          /\ SameMatter(x, y) /\ Triage(Candidate(y)') <= Triage(Candidate(x))
          /\ \A z \in Queue' : z.kind # "PUBLIC_SIGNAL" /\ SameMatter(x, z) => z = y
          /\ \A z \in Queue \cap Queue' : z.kind = "PUBLIC_SIGNAL" /\ IsBefore(x, z) => IsBefore(y, z)'
  /\ \A x \in Queue : x.kind = "PUBLIC_SIGNAL" =>
       IF x \in Queue' THEN Triage(Candidate(x)') >= Triage(Candidate(x))
       ELSE signal[x.subject].published + SavedDays < today'
  /\ \A x \in Queue' : x.kind = "PUBLIC_SIGNAL" /\ Triage(Candidate(x)') < 3 =>
       Fresh(x.subject)' /\ signal'[x.subject].score >= 70 ]_todayVars
=============================================================================
